---- MODULE Spec2Model ----
(***************************************************************************)
(* vue-nuxt-permissions: the permission evaluator (core/evaluator.ts), its *)
(* memoisation cache (core/cache.ts), the cache-key serialiser             *)
(* (utils/helpers.ts: stableStringify, isPermissionObject) and the global  *)
(* configuration (core/config.ts).                                         *)
(*                                                                         *)
(* JavaScript values are records tagged by `kind`.  A string is a sequence *)
(* of one-character strings (its UTF-16 units), so prefix, suffix and      *)
(* escaping are computed, not assumed.  Arrays and objects carry a `ref`   *)
(* (their identity): two arrays with the same ref are the same object.     *)
(***************************************************************************)
EXTENDS Integers, Sequences, FiniteSets, TLC

VARIABLES
  permissionCache,   \* cache.ts: the Map, as its entries in insertion order
  now,               \* Date.now()
  globalPermissions, \* config.ts: globalConfig.permissions (null or an array)
  globalReactivePermissions, \* config.ts: globalReactivePermissions.value
  heldPermissions,   \* the held list the caller passes (usePermission's
                     \* permissions.value)
  sourceType,        \* usePermission: "global", "storage" or "empty";
                     \* "none" while no instance exists
  storage,           \* localStorage's item "__v_permission__": a string,
                     \* null when there is none, or storage is unavailable
  installing,        \* plugin.ts: the options of the install that awaits
                     \* fetchPermissions(), null when none does
  pending,           \* evaluator.ts: the hasPermission calls suspended at
                     \* `await evaluate(...)`
  cacheWithout,      \* SpecSweep: the Map of the run that makes the same
                     \* calls except those of invalidateCache
  checkedRule,       \* the rule the caller evaluates
  guardOptions,      \* the GuardOptions of the router's navigation guard,
                     \* undefined while no guard is registered
  el,                \* v-permission.ts: the element the directive is on,
                     \* with its parent's child nodes and the evaluations
                     \* evaluateAndUpdate has started; undefined while no
                     \* element is mounted
  last               \* the call that was made last, with what it returned

vars ==
  <<permissionCache, now, globalPermissions, globalReactivePermissions,
    heldPermissions, sourceType, storage, installing, pending, cacheWithout,
    checkedRule, guardOptions, el, last>>

\* What the operations of the cache and of the evaluator leave alone
applicationVars ==
  <<globalReactivePermissions, sourceType, storage, installing, pending,
    cacheWithout, guardOptions, el>>

----------------------------------------------------------------------------
(* JavaScript values *)

JsUndefined == [kind |-> "undefined"]
JsNull == [kind |-> "null"]
JsNumber(n) == [kind |-> "number", num |-> n]
JsBoolean(b) == [kind |-> "boolean", bool |-> b]
JsString(s) == [kind |-> "string", str |-> s]
JsArray(r, xs) == [kind |-> "array", ref |-> r, items |-> xs]
JsObject(r, ps) == [kind |-> "object", ref |-> r, props |-> ps]
Prop(k, v) == [key |-> k, val |-> v]

\* ===, which is also what Array.prototype.includes and Set.prototype.has
\* decide for the values used here (no NaN): primitives by value, objects
\* by identity.
StrictEquals(a, b) ==
  IF a.kind \in {"array", "object"}
    THEN b.kind = a.kind /\ b.ref = a.ref
    ELSE a = b

\* Array.prototype.includes
Includes(xs, v) == \E i \in 1..Len(xs) : StrictEquals(xs[i], v)

\* Array.isArray
IsArray(v) == v.kind = "array"

\* `k in v` for an object v
HasProp(v, k) == \E i \in 1..Len(v.props) : v.props[i].key = k

\* v[k]: the property's value, undefined when v has no such property
GetProp(v, k) ==
  IF HasProp(v, k)
    THEN (v.props[CHOOSE i \in 1..Len(v.props) : v.props[i].key = k]).val
    ELSE JsUndefined

\* String.prototype.startsWith / endsWith on two strings
StartsWith(u, p) == Len(p) <= Len(u) /\ SubSeq(u, 1, Len(p)) = p
EndsWith(u, p) ==
  Len(p) <= Len(u) /\ SubSeq(u, Len(u) - Len(p) + 1, Len(u)) = p

\* The strings the program names
S_star == <<"*">>
S_and == <<"a", "n", "d">>
S_or == <<"o", "r">>
S_not == <<"n", "o", "t">>
S_startWith == <<"s", "t", "a", "r", "t", "W", "i", "t", "h">>
S_endWith == <<"e", "n", "d", "W", "i", "t", "h">>
S_regex == <<"r", "e", "g", "e", "x">>
S_permissions ==
  <<"p", "e", "r", "m", "i", "s", "s", "i", "o", "n", "s">>
S_mode == <<"m", "o", "d", "e">>
S_current == <<"c", "u", "r", "r", "e", "n", "t">>
S_permissionValue ==
  <<"p", "e", "r", "m", "i", "s", "s", "i", "o", "n", "V", "a", "l", "u", "e">>

----------------------------------------------------------------------------
(* new RegExp(p) and RegExp.prototype.test, for the patterns made of       *)
(* literal characters, groups "(" ")" and the quantifiers "*" and "+".     *)
(* A quantifier with nothing to repeat (at the start of the pattern or of  *)
(* a group, or after another quantifier), a group that is not closed and a *)
(* ")" that closes nothing are SyntaxErrors.                               *)

Quantifiers == {"*", "+"}

ParseError == [ok |-> FALSE, seq |-> <<>>, next |-> 0]

\* The pattern read from position k up to its end or to the ")" that closes
\* the group being read, after the terms `acc`: the terms, and the
\* position where reading stopped.
RECURSIVE ParseTerms(_, _, _)
ParseTerms(p, k, acc) ==
  IF k > Len(p) \/ p[k] = ")" THEN [ok |-> TRUE, seq |-> acc, next |-> k]
  ELSE IF p[k] \in Quantifiers THEN ParseError
  ELSE
    LET inner == ParseTerms(p, k + 1, <<>>)
        isGroup == p[k] = "("
        closed == inner.ok /\ inner.next <= Len(p)
        atom == IF isGroup THEN [t |-> "group", body |-> inner.seq]
                ELSE [t |-> "char", c |-> p[k]]
        after == IF isGroup THEN inner.next + 1 ELSE k + 1
        quantified == after <= Len(p) /\ p[after] \in Quantifiers
        term == IF quantified
                  THEN [t |-> IF p[after] = "*" THEN "star" ELSE "plus",
                        of |-> atom]
                  ELSE atom
    IN IF isGroup /\ ~closed THEN ParseError
       ELSE ParseTerms(p, IF quantified THEN after + 1 ELSE after,
                       Append(acc, term))

\* new RegExp(p) does not throw
RegExpCompiles(p) ==
  LET r == ParseTerms(p, 1, <<>>) IN r.ok /\ r.next = Len(p) + 1

\* The positions of u where a match of the terms (of the term) can end when
\* it starts at one of the positions S.
RECURSIVE MatchTerms(_, _, _)
RECURSIVE MatchTerm(_, _, _)
RECURSIVE MatchRepeat(_, _, _)

MatchTerms(seq, u, S) ==
  IF seq = <<>> THEN S
  ELSE MatchTerms(Tail(seq), u, MatchTerm(Head(seq), u, S))

MatchTerm(n, u, S) ==
  CASE n.t = "char" -> {i + 1 : i \in {j \in S : j <= Len(u) /\ u[j] = n.c}}
    [] n.t = "group" -> MatchTerms(n.body, u, S)
    [] n.t = "star" -> MatchRepeat(n.of, u, S)
    [] n.t = "plus" -> MatchRepeat(n.of, u, MatchTerm(n.of, u, S))

\* Zero or more repetitions of n from the positions S
MatchRepeat(n, u, S) ==
  LET T == S \cup MatchTerm(n, u, S)
  IN IF T = S THEN S ELSE MatchRepeat(n, u, T)

\* r.test(u): a match anywhere in u
RegExpTest(p, u) ==
  MatchTerms(ParseTerms(p, 1, <<>>).seq, u, 1..(Len(u) + 1)) # {}

----------------------------------------------------------------------------
(* utils/helpers.ts *)

isPermissionObject(v) ==
  /\ v.kind \notin {"undefined", "null"}
  /\ ~(v.kind = "number" /\ v.num = 0)
  /\ ~(v.kind = "boolean" /\ ~v.bool)
  /\ ~(v.kind = "string" /\ v.str = <<>>)
  /\ v.kind \in {"object", "array"}
  /\ ~IsArray(v)
  /\ HasProp(v, S_permissions)
  /\ HasProp(v, S_mode)

\* Boolean(v)
Truthy(v) ==
  /\ v.kind \notin {"undefined", "null"}
  /\ v # JsBoolean(FALSE)
  /\ v # JsNumber(0)
  /\ v # JsString(<<>>)

\* normalizePermissions(p)
normalizePermissions(p) ==
  IF ~Truthy(p) THEN JsArray("normalized", <<>>)
  ELSE LET v == IF p.kind = "ref" THEN p.value ELSE p
       IN IF IsArray(v) THEN JsArray("normalized", SelectSeq(v.items, Truthy))
          ELSE JsArray("normalized", <<>>)

----------------------------------------------------------------------------
(* utils/helpers.ts: stableStringify, i.e. JSON.stringify with a replacer  *)
(* that drops every object it has already seen and rebuilds every plain    *)
(* object with its keys sorted.                                            *)

\* The characters in use, in UTF-16 code unit order (the order of
\* Array.prototype.sort on strings).
CodeOrder ==
  <<"\"", "*", ",", "0", "1", "2", "3", "4", "5", "6", "7", "8", "9", ":",
    "A", "B", "V", "W", "[", "\\", "]",
    "a", "b", "c", "d", "e", "f", "g", "h", "i", "k", "l", "m", "n", "o",
    "p", "r", "s", "t", "u", "x", "y", "{", "}">>

Code(c) == CHOOSE i \in 1..Len(CodeOrder) : CodeOrder[i] = c

\* s < t as strings
RECURSIVE StringLess(_, _)
StringLess(s, t) ==
  IF t = <<>> THEN FALSE
  ELSE IF s = <<>> THEN TRUE
  ELSE IF Head(s) = Head(t) THEN StringLess(Tail(s), Tail(t))
  ELSE Code(Head(s)) < Code(Head(t))

\* SortProps that keeps the order of insertion
SortProps_Unsorted(ps, acc) == acc \o ps

\* The properties `ps` inserted one by one into the sorted sequence `acc`:
\* Object.keys(v).sort().reduce(...) builds the object in this order.
RECURSIVE SortProps(_, _)
SortProps(ps, acc) ==
  IF ps = <<>> THEN acc
  ELSE LET p == Head(ps)
           n == Cardinality({i \in 1..Len(acc) : StringLess(acc[i].key, p.key)})
       IN SortProps(Tail(ps),
                    SubSeq(acc, 1, n) \o <<p>> \o SubSeq(acc, n + 1, Len(acc)))

\* JSON's quoting of a string: the quotation mark and the backslash escaped
RECURSIVE Escape(_)
Escape(s) ==
  IF s = <<>> THEN <<>>
  ELSE (IF Head(s) \in {"\"", "\\"} THEN <<"\\", Head(s)>> ELSE <<Head(s)>>)
       \o Escape(Tail(s))

Quote(s) == <<"\"">> \o Escape(s) \o <<"\"">>

\* A natural number in decimal
RECURSIVE Decimal(_)
Decimal(n) ==
  LET d == <<"0", "1", "2", "3", "4", "5", "6", "7", "8", "9">>[(n % 10) + 1]
  IN IF n < 10 THEN <<d>> ELSE Decimal(n \div 10) \o <<d>>

Undefined(seen) == [defined |-> FALSE, str |-> <<>>, seen |-> seen]
Defined(s, seen) == [defined |-> TRUE, str |-> s, seen |-> seen]

\* JSON.stringify's SerializeJSONProperty with the replacer of
\* stableStringify applied first; `seen` is the replacer's WeakSet, as the
\* set of the refs added so far.  The result is the text (or undefined)
\* and the WeakSet afterwards.
RECURSIVE SerializeProperty(_, _)
RECURSIVE SerializeArray(_, _, _)
RECURSIVE SerializeObject(_, _, _, _)

SerializeProperty(v, seen) ==
  CASE v.kind = "undefined" -> Undefined(seen)
    [] v.kind = "null" -> Defined(<<"n", "u", "l", "l">>, seen)
    [] v.kind = "boolean" ->
         Defined(IF v.bool THEN <<"t", "r", "u", "e">>
                 ELSE <<"f", "a", "l", "s", "e">>, seen)
    [] v.kind = "number" -> Defined(Decimal(v.num), seen)
    [] v.kind = "string" -> Defined(Quote(v.str), seen)
    [] v.kind = "array" ->
         IF v.ref \in seen THEN Undefined(seen)
         ELSE SerializeArray(v.items, <<"[">>, seen \cup {v.ref})
    [] v.kind = "object" ->
         IF v.ref \in seen THEN Undefined(seen)
         ELSE SerializeObject(SortProps(v.props, <<>>), <<"{">>, TRUE,
                              seen \cup {v.ref})

\* The elements left to write, after the text `acc`; an element that
\* serialises to undefined is written as null.
SerializeArray(items, acc, seen) ==
  IF items = <<>> THEN Defined(acc \o <<"]">>, seen)
  ELSE LET r == SerializeProperty(Head(items), seen)
           sep == IF acc = <<"[">> THEN <<>> ELSE <<",">>
           txt == IF r.defined THEN r.str ELSE <<"n", "u", "l", "l">>
       IN SerializeArray(Tail(items), acc \o sep \o txt, r.seen)

\* The properties left to write, after the text `acc`; a property whose
\* value serialises to undefined is left out.
SerializeObject(ps, acc, first, seen) ==
  IF ps = <<>> THEN Defined(acc \o <<"}">>, seen)
  ELSE LET r == SerializeProperty(Head(ps).val, seen)
           sep == IF first THEN <<>> ELSE <<",">>
       IN IF r.defined
            THEN SerializeObject(Tail(ps),
                   acc \o sep \o Quote(Head(ps).key) \o <<":">> \o r.str,
                   FALSE, r.seen)
            ELSE SerializeObject(Tail(ps), acc, first, r.seen)

stableStringify(value) == SerializeProperty(value, {}).str

----------------------------------------------------------------------------
(* utils/storage.ts: encrypt is btoa over the UTF-8 bytes of               *)
(* JSON.stringify(value), decrypt is JSON.parse over the text decoded from *)
(* atob(value).  Strings hold printable ASCII characters, whose UTF-8      *)
(* bytes are their codes.                                                  *)

\* The characters with the codes 32 to 126, in that order; the entry of the
\* grave accent (96), which no string here contains, is left empty
AsciiPrintable ==
  <<" ", "!", "\"", "#", "$", "%", "&", "'", "(", ")", "*", "+", ",", "-",
    ".", "/", "0", "1", "2", "3", "4", "5", "6", "7", "8", "9", ":", ";",
    "<", "=", ">", "?", "@", "A", "B", "C", "D", "E", "F", "G", "H", "I",
    "J", "K", "L", "M", "N", "O", "P", "Q", "R", "S", "T", "U", "V", "W",
    "X", "Y", "Z", "[", "\\", "]", "^", "_", "", "a", "b", "c", "d", "e",
    "f", "g", "h", "i", "j", "k", "l", "m", "n", "o", "p", "q", "r", "s",
    "t", "u", "v", "w", "x", "y", "z", "{", "|", "}", "~">>

IndexIn(seq, c) == CHOOSE i \in 1..Len(seq) : seq[i] = c

\* new TextEncoder().encode(text), and TextDecoder.decode for such bytes
TextEncode(text) ==
  [i \in 1..Len(text) |-> IndexIn(AsciiPrintable, text[i]) + 31]
IsAsciiText(bytes) == \A i \in 1..Len(bytes) : bytes[i] \in 32..126
TextDecode(bytes) == [i \in 1..Len(bytes) |-> AsciiPrintable[bytes[i] - 31]]

Base64Alphabet ==
  <<"A", "B", "C", "D", "E", "F", "G", "H", "I", "J", "K", "L", "M", "N",
    "O", "P", "Q", "R", "S", "T", "U", "V", "W", "X", "Y", "Z", "a", "b",
    "c", "d", "e", "f", "g", "h", "i", "j", "k", "l", "m", "n", "o", "p",
    "q", "r", "s", "t", "u", "v", "w", "x", "y", "z", "0", "1", "2", "3",
    "4", "5", "6", "7", "8", "9", "+", "/">>

\* btoa of the binary string whose character codes are `bytes`
RECURSIVE btoa(_)
btoa(bytes) ==
  IF bytes = <<>> THEN <<>>
  ELSE
    LET n == Len(bytes)
        b1 == bytes[1]
        b2 == IF n >= 2 THEN bytes[2] ELSE 0
        b3 == IF n >= 3 THEN bytes[3] ELSE 0
        c1 == Base64Alphabet[(b1 \div 4) + 1]
        c2 == Base64Alphabet[((b1 % 4) * 16 + (b2 \div 16)) + 1]
        c3 == IF n >= 2 THEN Base64Alphabet[((b2 % 16) * 4 + (b3 \div 64)) + 1]
              ELSE "="
        c4 == IF n >= 3 THEN Base64Alphabet[(b3 % 64) + 1] ELSE "="
    IN <<c1, c2, c3, c4>> \o btoa(SubSeq(bytes, 4, n))

\* The text without its padding: at most two "=" at the end of a text whose
\* length is a multiple of four
Unpadded(text) ==
  LET n == Len(text)
      k == IF n % 4 # 0 \/ n = 0 \/ text[n] # "=" THEN 0
           ELSE IF text[n - 1] = "=" THEN 2 ELSE 1
  IN SubSeq(text, 1, n - k)

\* atob does not throw: base64 characters only, and no single character
\* left over
AtobValid(text) ==
  LET data == Unpadded(text)
  IN /\ \A i \in 1..Len(data) :
          \E j \in 1..Len(Base64Alphabet) : Base64Alphabet[j] = data[i]
     /\ Len(data) % 4 # 1

\* The character codes of atob(text), from the sextets of its characters
RECURSIVE DecodeSextets(_)
DecodeSextets(v) ==
  IF Len(v) < 2 THEN <<>>
  ELSE
    LET n == Len(v)
        v3 == IF n >= 3 THEN v[3] ELSE 0
        v4 == IF n >= 4 THEN v[4] ELSE 0
        b1 == v[1] * 4 + (v[2] \div 16)
        b2 == (v[2] % 16) * 16 + (v3 \div 4)
        b3 == (v3 % 4) * 64 + v4
    IN (IF n >= 4 THEN <<b1, b2, b3>>
        ELSE IF n = 3 THEN <<b1, b2>> ELSE <<b1>>)
       \o DecodeSextets(SubSeq(v, 5, n))

atob(text) ==
  LET data == Unpadded(text)
  IN DecodeSextets([i \in 1..Len(data) |-> IndexIn(Base64Alphabet, data[i]) - 1])

\* JSON.stringify of a value without object members: an array item that is
\* undefined is written as null
RECURSIVE JsonStringify(_)
RECURSIVE JsonStringifyItems(_)
JsonStringify(v) ==
  CASE v.kind = "string" -> Quote(v.str)
    [] v.kind = "number" -> Decimal(v.num)
    [] v.kind = "boolean" ->
         IF v.bool THEN <<"t", "r", "u", "e">> ELSE <<"f", "a", "l", "s", "e">>
    [] v.kind = "array" -> <<"[">> \o JsonStringifyItems(v.items) \o <<"]">>
    [] OTHER -> <<"n", "u", "l", "l">>

JsonStringifyItems(items) ==
  IF items = <<>> THEN <<>>
  ELSE JsonStringify(Head(items))
       \o (IF Len(items) > 1 THEN <<",">> ELSE <<>>)
       \o JsonStringifyItems(Tail(items))

\* JSON.parse for the texts JsonStringify writes: arrays, strings, digits,
\* true, false and null; an array it reads is a new array each time.  Any
\* other text is a syntax error here.
SyntaxError == [ok |-> FALSE, val |-> JsNull, next |-> 0]
Parsed(v, k) == [ok |-> TRUE, val |-> v, next |-> k]
Digits == {"0", "1", "2", "3", "4", "5", "6", "7", "8", "9"}
DigitValue(c) == IndexIn(AsciiPrintable, c) - 17
TextAt(s, i, word) ==
  i + Len(word) - 1 <= Len(s) /\ SubSeq(s, i, i + Len(word) - 1) = word

RECURSIVE JsonParseValue(_, _)
RECURSIVE JsonParseItems(_, _, _)
RECURSIVE JsonParseString(_, _, _)
RECURSIVE JsonParseDigits(_, _, _)
JsonParseValue(s, i) ==
  IF i > Len(s) THEN SyntaxError
  ELSE IF s[i] = "[" THEN
    IF TextAt(s, i + 1, <<"]">>) THEN Parsed(JsArray("stored", <<>>), i + 2)
    ELSE JsonParseItems(s, i + 1, <<>>)
  ELSE IF s[i] = "\"" THEN JsonParseString(s, i + 1, <<>>)
  ELSE IF TextAt(s, i, <<"n", "u", "l", "l">>) THEN Parsed(JsNull, i + 4)
  ELSE IF TextAt(s, i, <<"t", "r", "u", "e">>)
    THEN Parsed(JsBoolean(TRUE), i + 4)
  ELSE IF TextAt(s, i, <<"f", "a", "l", "s", "e">>)
    THEN Parsed(JsBoolean(FALSE), i + 5)
  ELSE IF s[i] = "0" THEN Parsed(JsNumber(0), i + 1)
  ELSE IF s[i] \in Digits THEN JsonParseDigits(s, i, 0)
  ELSE SyntaxError

JsonParseItems(s, i, acc) ==
  LET r == JsonParseValue(s, i)
  IN IF ~r.ok THEN SyntaxError
     ELSE IF TextAt(s, r.next, <<",">>)
       THEN JsonParseItems(s, r.next + 1, Append(acc, r.val))
     ELSE IF TextAt(s, r.next, <<"]">>)
       THEN Parsed(JsArray("stored", Append(acc, r.val)), r.next + 1)
     ELSE SyntaxError

JsonParseString(s, i, acc) ==
  IF i > Len(s) THEN SyntaxError
  ELSE IF s[i] = "\"" THEN Parsed(JsString(acc), i + 1)
  ELSE IF s[i] = "\\" THEN
    IF i + 1 <= Len(s) /\ s[i + 1] \in {"\"", "\\"}
      THEN JsonParseString(s, i + 2, Append(acc, s[i + 1]))
      ELSE SyntaxError
  ELSE JsonParseString(s, i + 1, Append(acc, s[i]))

JsonParseDigits(s, i, n) ==
  IF i <= Len(s) /\ s[i] \in Digits
    THEN JsonParseDigits(s, i + 1, n * 10 + DigitValue(s[i]))
    ELSE Parsed(JsNumber(n), i)

JsonParse(s) ==
  LET r == JsonParseValue(s, 1)
  IN IF r.ok /\ r.next = Len(s) + 1 THEN r ELSE SyntaxError

\* encrypt(value): btoa(String.fromCharCode(...utf8(JSON.stringify(value))))
encrypt(value) == btoa(TextEncode(JsonStringify(value)))

\* decrypt(value): the parsed value, or null when atob or JSON.parse throws
decrypt(text) ==
  IF ~AtobValid(text) \/ ~IsAsciiText(atob(text)) THEN JsNull
  ELSE LET r == JsonParse(TextDecode(atob(text)))
       IN IF r.ok THEN r.val ELSE JsNull

\* localStorage's item under the storage key: null when absent, a string
\* when present; outside a browser there is no localStorage
NoStorage == [kind |-> "unavailable"]
isBrowser(st) == st # NoStorage

\* A localStorage whose getItem, setItem and removeItem throw (access to
\* the storage is denied)
FailingStorage == [kind |-> "failing"]

\* The call of localStorage in the try block throws, and the catch block
\* ends the function
StorageCallThrows(st) == st = FailingStorage

\* savePermissionsToStorage(permissions)
savePermissionsToStorage(st, permissions) ==
  IF ~isBrowser(st) THEN st
  ELSE IF StorageCallThrows(st) THEN st
  ELSE JsString(encrypt(permissions))

\* clearPermissionsFromStorage()
clearPermissionsFromStorage(st) ==
  IF ~isBrowser(st) THEN st
  ELSE IF StorageCallThrows(st) THEN st
  ELSE JsNull

\* A read that hands out the stored text as it is
getPermissionsFromStorage_Undecoded(st) ==
  IF ~isBrowser(st) \/ StorageCallThrows(st) THEN JsNull
  ELSE IF st.kind = "null" \/ st.str = <<>> THEN JsNull
  ELSE st

\* getPermissionsFromStorage(): `stored ? decrypt(stored) : null`
getPermissionsFromStorage(st) ==
  IF ~isBrowser(st) THEN JsNull
  ELSE IF StorageCallThrows(st) THEN JsNull
  ELSE IF st.kind = "null" \/ st.str = <<>> THEN JsNull
  ELSE decrypt(st.str)

----------------------------------------------------------------------------
(* core/config.ts *)

\* A Vue Ref holding `v`
JsRef(v) == [kind |-> "ref", value |-> v]

\* `if (!permissions) return []`: a new array each time;
\* `if (isRef(permissions)) return permissions.value`
getCurrentPermissions(g) ==
  IF ~Truthy(g) THEN JsArray("unconfigured", <<>>)
  ELSE IF g.kind = "ref" THEN g.value
  ELSE g

\* configurePermission(permissions, options): the new globalConfig.permissions
\* and the new value of the reactive list
configurePermission(permissions) ==
  [permissions |-> permissions,
   reactive |-> IF IsArray(permissions) THEN permissions
                ELSE JsArray("reactive", <<>>)]

----------------------------------------------------------------------------
(* core/evaluator.ts *)

VALID_MODES ==
  {JsString(S_and), JsString(S_or), JsString(S_not), JsString(S_startWith),
   JsString(S_endWith), JsString(S_regex)}

\* validateRegexPattern that lets every pattern through
validateRegexPattern_AcceptsAll(pattern) == TRUE

validateRegexPattern(pattern) == RegExpCompiles(pattern)

\* Set.prototype.has on VALID_MODES
ValidModesHas(mode) == \E m \in VALID_MODES : StrictEquals(m, mode)

\* checksSync with `not` written as the negation of `and`
checksSync_NotOfAnd(permissions, mode, current) ==
  LET P == permissions.items
      C == current.items
  IN CASE mode.str = S_and ->
            \A i \in 1..Len(P) : Includes(C, P[i])
       [] mode.str = S_or ->
            \E i \in 1..Len(P) : Includes(C, P[i])
       [] mode.str = S_not ->
            ~(\A i \in 1..Len(P) : Includes(C, P[i]))
       [] mode.str = S_startWith ->
            \E i \in 1..Len(P) : \E j \in 1..Len(C) :
              StartsWith(C[j].str, P[i].str)
       [] mode.str = S_endWith ->
            \E i \in 1..Len(P) : \E j \in 1..Len(C) :
              EndsWith(C[j].str, P[i].str)
       [] mode.str = S_regex ->
            \E i \in 1..Len(P) :
              /\ validateRegexPattern(P[i].str)
              /\ \E j \in 1..Len(C) : RegExpTest(P[i].str, C[j].str)
       [] OTHER -> FALSE

\* The `checks` table of checkPermissionSync, applied for `mode`;
\* `checks[mode]?.() ?? false`.
checksSync(permissions, mode, current) ==
  LET P == permissions.items
      C == current.items
  IN CASE mode.str = S_and ->
            \A i \in 1..Len(P) : Includes(C, P[i])
       [] mode.str = S_or ->
            \E i \in 1..Len(P) : Includes(C, P[i])
       [] mode.str = S_not ->
            ~(\E i \in 1..Len(P) : Includes(C, P[i]))
       [] mode.str = S_startWith ->
            \E i \in 1..Len(P) : \E j \in 1..Len(C) :
              StartsWith(C[j].str, P[i].str)
       [] mode.str = S_endWith ->
            \E i \in 1..Len(P) : \E j \in 1..Len(C) :
              EndsWith(C[j].str, P[i].str)
       [] mode.str = S_regex ->
            \E i \in 1..Len(P) :
              /\ validateRegexPattern(P[i].str)
              /\ \E j \in 1..Len(C) : RegExpTest(P[i].str, C[j].str)
       [] OTHER -> FALSE

checkPermissionSync(permissionValue, userPermissions, g) ==
  LET current == IF userPermissions.kind \in {"undefined", "null"}
                   THEN getCurrentPermissions(g)
                   ELSE userPermissions
  IN
  IF permissionValue = JsString(S_star) THEN TRUE
  ELSE IF permissionValue.kind = "string"
    THEN Includes(current.items, permissionValue)
  ELSE IF IsArray(permissionValue)
    THEN IF Includes(permissionValue.items, JsString(S_star)) THEN TRUE
         ELSE \E i \in 1..Len(permissionValue.items) :
                Includes(current.items, permissionValue.items[i])
  ELSE IF isPermissionObject(permissionValue)
    THEN LET permissions == GetProp(permissionValue, S_permissions)
             mode == GetProp(permissionValue, S_mode)
         IN IF ~ValidModesHas(mode) THEN FALSE
            ELSE IF ~IsArray(permissions) \/ Len(permissions.items) = 0
              THEN FALSE
            ELSE IF Includes(permissions.items, JsString(S_star)) THEN TRUE
            ELSE checksSync(permissions, mode, current)
  ELSE FALSE

\* The `checks` table of hasPermission's inner evaluate, applied for `mode`.
checksAsync(permissions, mode, current) ==
  LET P == permissions.items
      C == current.items
  IN CASE mode.str = S_and ->
            \A i \in 1..Len(P) : Includes(C, P[i])
       [] mode.str = S_or ->
            \E i \in 1..Len(P) : Includes(C, P[i])
       [] mode.str = S_not ->
            ~(\E i \in 1..Len(P) : Includes(C, P[i]))
       [] mode.str = S_startWith ->
            \E i \in 1..Len(P) : \E j \in 1..Len(C) :
              StartsWith(C[j].str, P[i].str)
       [] mode.str = S_endWith ->
            \E i \in 1..Len(P) : \E j \in 1..Len(C) :
              EndsWith(C[j].str, P[i].str)
       [] mode.str = S_regex ->
            \E i \in 1..Len(P) :
              /\ validateRegexPattern(P[i].str)
              /\ \E j \in 1..Len(C) : RegExpTest(P[i].str, C[j].str)
       [] OTHER -> FALSE

\* evaluate without the check for an empty permissions list
evaluate_NoEmptyCheck(value, current) ==
  IF value = JsString(S_star) THEN TRUE
  ELSE IF value.kind = "string" THEN Includes(current.items, value)
  ELSE IF IsArray(value)
    THEN IF Includes(value.items, JsString(S_star)) THEN TRUE
         ELSE \E i \in 1..Len(value.items) :
                Includes(current.items, value.items[i])
  ELSE IF isPermissionObject(value)
    THEN LET permissions == GetProp(value, S_permissions)
             mode == GetProp(value, S_mode)
         IN IF ~ValidModesHas(mode) THEN FALSE
            ELSE IF ~IsArray(permissions) THEN FALSE
            ELSE IF Includes(permissions.items, JsString(S_star)) THEN TRUE
            ELSE checksAsync(permissions, mode, current)
  ELSE FALSE

\* evaluate with the wildcard short-circuit ahead of the mode check
evaluate_WildcardFirst(value, current) ==
  IF value = JsString(S_star) THEN TRUE
  ELSE IF value.kind = "string" THEN Includes(current.items, value)
  ELSE IF IsArray(value)
    THEN IF Includes(value.items, JsString(S_star)) THEN TRUE
         ELSE \E i \in 1..Len(value.items) :
                Includes(current.items, value.items[i])
  ELSE IF isPermissionObject(value)
    THEN LET permissions == GetProp(value, S_permissions)
             mode == GetProp(value, S_mode)
         IN IF IsArray(permissions)
                 /\ Includes(permissions.items, JsString(S_star)) THEN TRUE
            ELSE IF ~ValidModesHas(mode) THEN FALSE
            ELSE IF ~IsArray(permissions) \/ Len(permissions.items) = 0
              THEN FALSE
            ELSE checksAsync(permissions, mode, current)
  ELSE FALSE

\* hasPermission's inner `evaluate`
evaluate(value, current) ==
  IF value = JsString(S_star) THEN TRUE
  ELSE IF value.kind = "string" THEN Includes(current.items, value)
  ELSE IF IsArray(value)
    THEN IF Includes(value.items, JsString(S_star)) THEN TRUE
         ELSE \E i \in 1..Len(value.items) :
                Includes(current.items, value.items[i])
  ELSE IF isPermissionObject(value)
    THEN LET permissions == GetProp(value, S_permissions)
             mode == GetProp(value, S_mode)
         IN IF ~ValidModesHas(mode) THEN FALSE
            ELSE IF ~IsArray(permissions) \/ Len(permissions.items) = 0
              THEN FALSE
            ELSE IF Includes(permissions.items, JsString(S_star)) THEN TRUE
            ELSE checksAsync(permissions, mode, current)
  ELSE FALSE

----------------------------------------------------------------------------
(* core/cache.ts.  The Map is the sequence of its entries in insertion     *)
(* order; Map.set on a present key keeps the entry's position.             *)

\* Scaled: 1000 entries in the source.
CACHE_MAX_SIZE == 2
\* Scaled: 5 * 60 * 1000 ms in the source; the clock ticks in units.
CACHE_TTL == 2
\* SpecSweep scales the 1000 entries to 3: its cache must be able to hold
\* an expired entry behind a fresh one when it is full.
CACHE_MAX_SIZE_Sweep == 3

MapHas(m, key) == \E i \in 1..Len(m) : m[i].key = key
MapIndex(m, key) == CHOOSE i \in 1..Len(m) : m[i].key = key
MapGet(m, key) == m[MapIndex(m, key)]
MapDelete(m, key) == SelectSeq(m, LAMBDA e : e.key # key)
MapSet(m, key, value, timestamp) ==
  LET e == [key |-> key, value |-> value, timestamp |-> timestamp]
  IN IF MapHas(m, key)
       THEN [m EXCEPT ![MapIndex(m, key)] = e]
       ELSE Append(m, e)

\* getCachedPermission expiring an entry already at the age CACHE_TTL
getCachedPermission_ExpiresAtTTL(m, key, t) ==
  IF ~MapHas(m, key) THEN [result |-> JsNull, cache |-> m]
  ELSE IF t - MapGet(m, key).timestamp >= CACHE_TTL
    THEN [result |-> JsNull, cache |-> MapDelete(m, key)]
  ELSE [result |-> JsBoolean(MapGet(m, key).value), cache |-> m]

\* The result and the Map afterwards
getCachedPermission(m, key, t) ==
  IF ~MapHas(m, key) THEN [result |-> JsNull, cache |-> m]
  ELSE IF t - MapGet(m, key).timestamp > CACHE_TTL
    THEN [result |-> JsNull, cache |-> MapDelete(m, key)]
  ELSE [result |-> JsBoolean(MapGet(m, key).value), cache |-> m]

\* setCachedPermission for a cache of `size` entries.
\* `if (oldestKey)`: the first key, when there is one and it is truthy
setCachedPermissionOfSize(size, m, key, value, t) ==
  LET evicted ==
        IF Len(m) >= size
          THEN IF Len(m) > 0 /\ m[1].key # <<>>
                 THEN MapDelete(m, m[1].key)
                 ELSE m
          ELSE m
  IN MapSet(evicted, key, value, t)

setCachedPermission(m, key, value, t) ==
  setCachedPermissionOfSize(CACHE_MAX_SIZE, m, key, value, t)

\* clearPermissionCache that leaves the newest entry in place
clearPermissionCache_KeepsNewest(m) ==
  IF m = <<>> THEN <<>> ELSE <<m[Len(m)]>>

clearPermissionCache(m) == <<>>

\* invalidateCache deleting an entry already at the age CACHE_TTL
invalidateCache_ExpiresAtTTL(m, t) ==
  SelectSeq(m, LAMBDA e : ~(t - e.timestamp >= CACHE_TTL))

invalidateCache(m, t) ==
  SelectSeq(m, LAMBDA e : ~(t - e.timestamp > CACHE_TTL))

----------------------------------------------------------------------------
(* Bounds and the inputs drawn from them *)

\* The clock stops here.
MaxNow == 3
\* The longest held list and the longest rule list SpecEval draws.
MaxHeld == 2
MaxPerms == 2

P_a == <<"a">>
P_ab == <<"a", "b">>
P_b == <<"b">>
S_bogus == <<"b", "o", "g", "u", "s">>

\* The sequences over S of length at most n
SeqsUpTo(S, n) == UNION {[1..k -> S] : k \in 0..n}

ModeValues == VALID_MODES \cup {JsString(S_bogus)}

\* { permissions, mode } in that order of insertion
Structured(permissions, mode) ==
  JsObject("rule", <<Prop(S_permissions, permissions), Prop(S_mode, mode)>>)

\* The values that are no rule: null, undefined, a number, a boolean, an
\* object without one of the two fields, permissions that is no array.
Malformed ==
  {JsUndefined, JsNull, JsNumber(1), JsBoolean(TRUE),
   JsObject("rule", <<>>),
   JsObject("rule", <<Prop(S_mode, JsString(S_and))>>),
   JsObject("rule", <<Prop(S_permissions, JsArray("list", <<JsString(P_a)>>))>>),
   Structured(JsUndefined, JsString(S_and)),
   Structured(JsString(P_a), JsString(S_or))}

\* SpecEval: every held list and every rule over these permissions; a rule
\* may be, or may hold, the very array that is passed as the held list.
EvalPermissions == {JsString(P_a), JsString(P_ab), JsString(P_b), JsString(S_star)}

EvalHeld == {JsArray("held", xs) : xs \in SeqsUpTo(EvalPermissions, MaxHeld)}

EvalLists(held) ==
  {JsArray("list", xs) : xs \in SeqsUpTo(EvalPermissions, MaxPerms)}
    \cup {held}

EvalRules(held) ==
  EvalPermissions
    \cup EvalLists(held)
    \cup {Structured(l, m) : l \in EvalLists(held), m \in ModeValues}
    \cup Malformed

\* Spec: the lists one caller may hold
SessionHeld ==
  {JsArray("held", xs) : xs \in {<<>>, <<JsString(P_a)>>, <<JsString(S_star)>>}}

\* The rules the caller checks: strings, lists, structured rules with an
\* empty list under each mode, with an unknown mode, values that are no
\* rule, and rules that are or hold the array passed as the held list.
SessionRules(held) ==
  {JsUndefined, JsNull, JsObject("rule", <<Prop(S_mode, JsString(S_and))>>)}
    \cup {JsString(S_star), JsString(P_a)}
    \cup {JsArray("list", <<JsString(S_star)>>),
          JsArray("list", <<JsString(P_a)>>), held}
    \cup {Structured(JsArray("list", <<>>), m) : m \in VALID_MODES}
    \cup {Structured(JsArray("list", <<JsString(P_a)>>), JsString(S_bogus)),
          Structured(JsArray("list", <<JsString(S_star)>>), JsString(S_bogus)),
          Structured(held, JsString(S_and)),
          Structured(held, JsString(S_bogus))}

\* SpecRegex: patterns that compile ("a", and "(a+)+b" with its nested
\* quantifiers), patterns that do not (a quantifier with nothing to repeat,
\* a group left open, and "*" itself), and the strings they are tried on.
R_nested == <<"(", "a", "+", ")", "+", "b">>
R_repeat == <<"*", "a">>
R_open == <<"(", "a">>
P_aab == <<"a", "a", "b">>

RegexPatterns ==
  {JsString(P_a), JsString(R_nested), JsString(R_repeat), JsString(R_open),
   JsString(S_star)}

RegexHeld ==
  {JsArray("held", xs) :
     xs \in SeqsUpTo({JsString(P_a), JsString(P_b), JsString(P_aab)}, MaxHeld)}

RegexRules ==
  {Structured(JsArray("list", xs), JsString(S_regex)) :
     xs \in SeqsUpTo(RegexPatterns, MaxPerms)}

\* The values that differ from v only in the insertion order of the keys of
\* its objects, at every depth (v itself among them)
RECURSIVE Reorderings(_)
Reorderings(v) ==
  LET n == IF v.kind = "array" THEN Len(v.items)
           ELSE IF v.kind = "object" THEN Len(v.props) ELSE 0
      child(i) == IF v.kind = "array" THEN v.items[i] ELSE v.props[i].val
      children == {f \in [1..n -> UNION {Reorderings(child(i)) : i \in 1..n}] :
                     \A i \in 1..n : f[i] \in Reorderings(child(i))}
      orders == {o \in [1..n -> 1..n] : \A i, j \in 1..n : o[i] = o[j] => i = j}
  IN CASE v.kind = "array" -> {JsArray(v.ref, f) : f \in children}
       [] v.kind = "object" ->
            {JsObject(v.ref, [i \in 1..n |-> Prop(v.props[o[i]].key, f[o[i]])]) :
               f \in children, o \in orders}
       [] OTHER -> {v}

\* SpecStringify: rules and other values with objects of two and three
\* keys, nested in objects and in arrays, in every insertion order.
NestedValue ==
  JsObject("outer",
    <<Prop(<<"b">>, JsObject("inner", <<Prop(<<"y">>, JsNumber(1)),
                                        Prop(<<"x">>, JsString(P_a))>>)),
      Prop(<<"a">>, JsArray("list",
                      <<JsObject("item", <<Prop(<<"d">>, JsNull),
                                           Prop(<<"c">>, JsBoolean(TRUE))>>)>>))>>)

StringifyBase ==
  {NestedValue,
   JsObject("rule", <<Prop(<<"c">>, JsNumber(1)), Prop(<<"a">>, JsNumber(2)),
                      Prop(<<"b">>, JsNumber(3))>>),
   Structured(JsArray("list", <<JsString(P_a), JsString(P_b)>>), JsString(S_and)),
   Structured(JsArray("list", <<JsString(P_b), JsString(P_a)>>), JsString(S_or)),
   Structured(JsArray("list", <<>>), JsString(S_not)),
   JsArray("list", <<JsString(P_b), JsString(P_a)>>),
   JsString(P_a)}

StringifyValues == UNION {Reorderings(v) : v \in StringifyBase}

StringifyHeld ==
  {JsArray("held", xs) : xs \in {<<>>, <<JsString(P_a)>>, <<JsString(P_a), JsString(P_b)>>}}

\* SpecInstance: the lists an instance's `permissions` may give (the
\* reactive proxies of the arrays the instance was given), and the rules
\* handed to it: a name, no rule, and the list read from its `permissions`
InstanceItems == {<<>>, <<JsString(P_a)>>, <<JsString(P_b)>>}
InstanceHeld ==
  {JsArray(r, xs) :
     r \in {"global, reactive", "stored, reactive", "initial, reactive",
            "refreshed, reactive", "set, reactive"},
     xs \in InstanceItems}
InstanceRules(held) == {JsString(P_a), JsUndefined, held}

----------------------------------------------------------------------------
(* core/evaluator.ts: hasPermission *)

\* stableStringify({ permissionValue, current })
stringifyKey(permissionValue, current) ==
  stableStringify(JsObject("key",
    <<Prop(S_permissionValue, permissionValue), Prop(S_current, current)>>))

\* The keys of the session's rules, serialised once
SessionKeys ==
  [held \in SessionHeld |->
     [rule \in SessionRules(held) |-> stringifyKey(rule, held)]]

\* The keys of the instance's rules, serialised once
InstanceKeys ==
  [held \in InstanceHeld |->
     [rule \in InstanceRules(held) |-> stringifyKey(rule, held)]]

cacheKeyOf(permissionValue, current) ==
  IF current \in DOMAIN SessionKeys
       /\ permissionValue \in DOMAIN SessionKeys[current]
    THEN SessionKeys[current][permissionValue]
  ELSE IF current \in DOMAIN InstanceKeys
       /\ permissionValue \in DOMAIN InstanceKeys[current]
    THEN InstanceKeys[current][permissionValue]
  ELSE stringifyKey(permissionValue, current)

\* hasPermission with a cache of `size` entries, when nothing runs between
\* its lookup and its store: the verdict and the Map afterwards
hasPermissionOfSize(size, permissionValue, userPermissions, g, m, t) ==
  LET current == IF userPermissions.kind \in {"undefined", "null"}
                   THEN getCurrentPermissions(g)
                   ELSE userPermissions
      cacheKey == cacheKeyOf(permissionValue, current)
      cached == getCachedPermission(m, cacheKey, t)
  IN IF cached.result.kind # "null"
       THEN [result |-> cached.result.bool, cache |-> cached.cache]
       ELSE LET result == evaluate(permissionValue, current)
            IN [result |-> result,
                cache |-> setCachedPermissionOfSize(size, cached.cache,
                                                    cacheKey, result, t)]

hasPermission(permissionValue, userPermissions, g, m, t) ==
  hasPermissionOfSize(CACHE_MAX_SIZE, permissionValue, userPermissions, g, m, t)

----------------------------------------------------------------------------
(* The library as it is after module load, used without a plugin, a        *)
(* usePermission instance or storage: config.ts's empty reactive list, no  *)
(* call in flight.                                                         *)

Standalone ==
  /\ globalReactivePermissions = JsArray("reactive", <<>>)
  /\ sourceType = "none"
  /\ storage = JsNull
  /\ installing = JsNull
  /\ pending = <<>>
  /\ cacheWithout = <<>>
  /\ guardOptions = JsUndefined
  /\ el = JsUndefined

----------------------------------------------------------------------------
(* The operations *)

HasPermission(permissionValue, userPermissions) ==
  LET r == hasPermission(permissionValue, userPermissions, globalPermissions,
                         permissionCache, now)
  IN /\ permissionCache' = r.cache
     /\ last' = [op |-> "hasPermission", permissionValue |-> permissionValue,
                 userPermissions |-> userPermissions, result |-> r.result]
     /\ UNCHANGED <<now, globalPermissions, heldPermissions, checkedRule,
                    applicationVars>>

CheckPermissionSync(permissionValue, userPermissions) ==
  /\ last' = [op |-> "checkPermissionSync",
              permissionValue |-> permissionValue,
              userPermissions |-> userPermissions,
              result |-> checkPermissionSync(permissionValue, userPermissions,
                                             globalPermissions)]
  /\ UNCHANGED <<permissionCache, now, globalPermissions, heldPermissions,
                 checkedRule, applicationVars>>

GetCachedPermission(key) ==
  LET r == getCachedPermission(permissionCache, key, now)
  IN /\ permissionCache' = r.cache
     /\ last' = [op |-> "getCachedPermission", key |-> key, result |-> r.result]
     /\ UNCHANGED <<now, globalPermissions, heldPermissions, checkedRule,
                    applicationVars>>

SetCachedPermission(key, value) ==
  /\ permissionCache' = setCachedPermission(permissionCache, key, value, now)
  /\ last' = [op |-> "setCachedPermission", key |-> key, value |-> value]
  /\ UNCHANGED <<now, globalPermissions, heldPermissions, checkedRule,
                    applicationVars>>

ClearPermissionCache ==
  /\ permissionCache' = clearPermissionCache(permissionCache)
  /\ last' = [op |-> "clearPermissionCache"]
  /\ UNCHANGED <<now, globalPermissions, heldPermissions, checkedRule,
                    applicationVars>>

\* `removed` counts the entries the call deleted.
InvalidateCache ==
  /\ permissionCache' = invalidateCache(permissionCache, now)
  /\ last' = [op |-> "invalidateCache",
              removed |-> Len(permissionCache)
                            - Len(invalidateCache(permissionCache, now))]
  /\ UNCHANGED <<now, globalPermissions, heldPermissions, checkedRule,
                    applicationVars>>

\* SpecSweep: one call, made in the run that also calls invalidateCache
\* (permissionCache) and in the run that does not (cacheWithout).
InBothRuns(swept, unswept, record) ==
  /\ permissionCache' = swept.cache
  /\ cacheWithout' = unswept.cache
  /\ last' = [record EXCEPT !.result = swept.result,
                            !.resultWithout = unswept.result]
  /\ UNCHANGED <<now, globalPermissions, globalReactivePermissions,
                 heldPermissions, sourceType, storage, installing, pending,
                 checkedRule, guardOptions, el>>

SweepSetCachedPermission(key, value) ==
  LET op(m) ==
        [result |-> JsUndefined,
         cache |-> setCachedPermissionOfSize(CACHE_MAX_SIZE_Sweep, m, key,
                                             value, now)]
  IN InBothRuns(op(permissionCache), op(cacheWithout),
                [op |-> "setCachedPermission", key |-> key, value |-> value,
                 result |-> JsUndefined, resultWithout |-> JsUndefined])

SweepGetCachedPermission(key) ==
  InBothRuns(getCachedPermission(permissionCache, key, now),
             getCachedPermission(cacheWithout, key, now),
             [op |-> "getCachedPermission", key |-> key,
              result |-> JsUndefined, resultWithout |-> JsUndefined])

SweepHasPermission(permissionValue, userPermissions) ==
  LET op(m) ==
        hasPermissionOfSize(CACHE_MAX_SIZE_Sweep, permissionValue,
                            userPermissions, globalPermissions, m, now)
  IN InBothRuns(op(permissionCache), op(cacheWithout),
                [op |-> "hasPermission",
                 permissionValue |-> permissionValue,
                 userPermissions |-> userPermissions,
                 result |-> JsUndefined, resultWithout |-> JsUndefined])

SweepClearPermissionCache ==
  LET op(m) == [result |-> JsUndefined, cache |-> clearPermissionCache(m)]
  IN InBothRuns(op(permissionCache), op(cacheWithout),
                [op |-> "clearPermissionCache", result |-> JsUndefined,
                 resultWithout |-> JsUndefined])

\* A call of stableStringify
StableStringify(value) ==
  /\ last' = [op |-> "stableStringify", value |-> value,
              result |-> stableStringify(value)]
  /\ UNCHANGED <<permissionCache, now, globalPermissions, heldPermissions,
                 checkedRule, applicationVars>>

\* Time passes: d units.
Tick(d) ==
  /\ now + d <= MaxNow
  /\ now' = now + d
  /\ last' = [op |-> "tick"]
  /\ UNCHANGED <<permissionCache, globalPermissions, heldPermissions,
                 checkedRule, applicationVars>>

----------------------------------------------------------------------------
(* SpecEval: one rule and one held list, evaluated by both evaluators, any *)
(* number of times, as time passes and the cache is cleared.               *)

InitEval ==
  /\ permissionCache = <<>>
  /\ now = 0
  /\ globalPermissions = JsNull
  /\ Standalone
  /\ heldPermissions \in EvalHeld
  /\ checkedRule \in EvalRules(heldPermissions)
  /\ last = [op |-> "init"]

NextEval ==
  \/ HasPermission(checkedRule, heldPermissions)
  \/ CheckPermissionSync(checkedRule, heldPermissions)
  \/ ClearPermissionCache

SpecEval == InitEval /\ [][NextEval]_vars

----------------------------------------------------------------------------
(* SpecRegex: one rule in regex mode and one held list, evaluated by both  *)
(* evaluators.                                                             *)

InitRegex ==
  /\ permissionCache = <<>>
  /\ now = 0
  /\ globalPermissions = JsNull
  /\ Standalone
  /\ heldPermissions \in RegexHeld
  /\ checkedRule \in RegexRules
  /\ last = [op |-> "init"]

NextRegex ==
  \/ HasPermission(checkedRule, heldPermissions)
  \/ CheckPermissionSync(checkedRule, heldPermissions)
  \/ ClearPermissionCache

SpecRegex == InitRegex /\ [][NextRegex]_vars

----------------------------------------------------------------------------
(* SpecStringify: one value, serialised by stableStringify and checked as  *)
(* a rule through the cache.                                               *)

InitStringify ==
  /\ permissionCache = <<>>
  /\ now = 0
  /\ globalPermissions = JsNull
  /\ Standalone
  /\ heldPermissions \in StringifyHeld
  /\ checkedRule \in StringifyValues
  /\ last = [op |-> "init"]

NextStringify ==
  \/ StableStringify(checkedRule)
  \/ HasPermission(checkedRule, heldPermissions)
  \/ ClearPermissionCache

SpecStringify == InitStringify /\ [][NextStringify]_vars

----------------------------------------------------------------------------
(* Spec: one caller with its held list, checking one rule after another    *)
(* through the shared cache, as time passes and the cache is cleared or    *)
(* cleaned.                                                                *)

Init ==
  /\ permissionCache = <<>>
  /\ now = 0
  /\ globalPermissions = JsNull
  /\ Standalone
  /\ heldPermissions \in SessionHeld
  /\ checkedRule = JsUndefined
  /\ last = [op |-> "init"]

Next ==
  \/ \E rule \in SessionRules(heldPermissions) :
       HasPermission(rule, heldPermissions)
  \/ \E rule \in SessionRules(heldPermissions) :
       CheckPermissionSync(rule, heldPermissions)
  \/ ClearPermissionCache
  \/ InvalidateCache
  \/ Tick(CACHE_TTL + 1)

Spec == Init /\ [][Next]_vars

----------------------------------------------------------------------------
(* SpecCache: the cache's own operations, called with any of a few keys    *)
(* (the empty string among them) as the clock ticks, next to hasPermission *)
(* calls that use the same cache.                                          *)

CacheKeys == {<<>>, <<"x">>, <<"y">>}

CacheRules == {JsString(P_a)}

InitCache ==
  /\ permissionCache = <<>>
  /\ now = 0
  /\ globalPermissions = JsNull
  /\ Standalone
  /\ heldPermissions = JsArray("held", <<JsString(P_a)>>)
  /\ checkedRule = JsUndefined
  /\ last = [op |-> "init"]

NextCache ==
  \/ \E key \in CacheKeys, value \in BOOLEAN : SetCachedPermission(key, value)
  \/ \E key \in CacheKeys : GetCachedPermission(key)
  \/ \E rule \in CacheRules : HasPermission(rule, heldPermissions)
  \/ ClearPermissionCache
  \/ InvalidateCache
  \/ Tick(1)

SpecCache == InitCache /\ [][NextCache]_vars

----------------------------------------------------------------------------
(* SpecSweep: two runs of the cache under the same calls, one of which     *)
(* also calls invalidateCache, at any moment.                              *)

\* No rule at all, and the rule that is the held array itself
SweepRules == {JsUndefined, JsArray("held", <<JsString(P_a)>>)}

InitSweep ==
  /\ permissionCache = <<>>
  /\ now = 0
  /\ globalPermissions = JsNull
  /\ Standalone
  /\ heldPermissions = JsArray("held", <<JsString(P_a)>>)
  /\ checkedRule = JsUndefined
  /\ last = [op |-> "init"]

NextSweep ==
  \/ \E key \in CacheKeys, value \in BOOLEAN :
       SweepSetCachedPermission(key, value)
  \/ \E key \in CacheKeys : SweepGetCachedPermission(key)
  \/ \E rule \in SweepRules : SweepHasPermission(rule, heldPermissions)
  \/ SweepClearPermissionCache
  \/ InvalidateCache
  \/ Tick(CACHE_TTL + 1)

SpecSweep == InitSweep /\ [][NextSweep]_vars

----------------------------------------------------------------------------
(* composables/usePermission.ts and plugin.ts.  One usePermission instance  *)
(* is modelled: heldPermissions is its permissions.value and sourceType its *)
(* sourceType ("none" while no instance exists).  developmentMode and the   *)
(* console output are left out: no state read here depends on them.         *)

\* `x && x.length > 0`
HasLength(x) ==
  \/ IsArray(x) /\ Len(x.items) > 0
  \/ x.kind = "string" /\ Len(x.str) > 0

\* usePermission(): the instance's first list and its source
UsePermission ==
  LET globalPerms == getCurrentPermissions(globalPermissions)
      storedPerms == getPermissionsFromStorage(storage)
  IN /\ IF HasLength(globalPerms)
          THEN heldPermissions' = globalPerms /\ sourceType' = "global"
        ELSE IF HasLength(storedPerms)
          THEN heldPermissions' = storedPerms /\ sourceType' = "storage"
        ELSE heldPermissions' = JsArray("initial", <<>>)
             /\ sourceType' = "empty"
     /\ last' = [op |-> "usePermission"]
     /\ UNCHANGED <<permissionCache, now, globalPermissions,
                    globalReactivePermissions, storage, installing, pending,
                    cacheWithout, guardOptions, el, checkedRule>>

\* refresh that reloads from the storage whatever the instance's source
refresh_FromStorage(source, g, st) ==
  LET storedPerms == getPermissionsFromStorage(st)
  IN IF HasLength(storedPerms) THEN storedPerms
     ELSE JsArray("refreshed", <<>>)

\* refresh(): the list it assigns to permissions.value (lines 86-101)
refresh(source, g, st) ==
  LET currentGlobalPerms == getCurrentPermissions(g)
      storedPerms == getPermissionsFromStorage(st)
  IN IF source = "global"
       THEN IF HasLength(currentGlobalPerms) THEN currentGlobalPerms
            ELSE JsArray("refreshed", <<>>)
     ELSE IF source = "storage"
       THEN IF HasLength(storedPerms) THEN storedPerms
            ELSE JsArray("refreshed", <<>>)
     ELSE JsArray("refreshed", <<>>)

\* refresh(); `entriesBefore` counts the entries the cache held at the call,
\* `previous` names the operation before it
Refresh ==
  /\ sourceType # "none"
  /\ permissionCache' = clearPermissionCache(permissionCache)
  /\ heldPermissions' = refresh(sourceType, globalPermissions, storage)
  /\ last' = [op |-> "refresh", entriesBefore |-> Len(permissionCache),
              previous |-> last.op]
  /\ UNCHANGED <<now, globalPermissions, globalReactivePermissions,
                 sourceType, storage, installing, pending,
                 cacheWithout, guardOptions, el,
                 checkedRule>>

\* setPermissions(newPerms); `storedBefore` is what the storage held at the
\* call
SetPermissions(newPerms) ==
  /\ sourceType # "none"
  /\ IF ~IsArray(newPerms)
       THEN UNCHANGED <<permissionCache, heldPermissions, storage>>
       ELSE /\ permissionCache' = clearPermissionCache(permissionCache)
            /\ heldPermissions' = newPerms
            /\ storage' = savePermissionsToStorage(storage, newPerms)
  /\ last' = [op |-> "setPermissions", newPerms |-> newPerms,
              entriesBefore |-> Len(permissionCache),
              storedBefore |-> getPermissionsFromStorage(storage)]
  /\ UNCHANGED <<now, globalPermissions, globalReactivePermissions,
                 sourceType, installing, pending,
                 cacheWithout, guardOptions, el, checkedRule>>

\* What became of the call of fetchPermissions: it was not made, or it
\* rejected (a resolved call is the value it resolved with)
NotFetched == [kind |-> "not fetched"]
FetchRejected == [kind |-> "rejected"]

\* install from line 32 on, with the list the first part chose; `fetch` is
\* what became of fetchPermissions
InstallFinish(permissions, options, fetch) ==
  LET configured == configurePermission(permissions)
  IN /\ permissionCache' = clearPermissionCache(permissionCache)
     /\ globalPermissions' = configured.permissions
     /\ globalReactivePermissions' = configured.reactive
     /\ storage' = IF options.persist # JsBoolean(FALSE)
                     THEN savePermissionsToStorage(storage, permissions)
                     ELSE storage
     /\ installing' = JsNull
     /\ last' = [op |-> "install", entriesBefore |-> Len(permissionCache),
                 options |-> options, fetch |-> fetch,
                 storedBefore |-> getPermissionsFromStorage(storage),
                 storageBefore |-> storage]
     /\ UNCHANGED <<now, heldPermissions, sourceType, pending,
                    cacheWithout, guardOptions, el, checkedRule>>

\* The fallback without the read of the storage
StoredOrEmpty_Empty == JsArray("install", <<>>)

\* `getPermissionsFromStorage() ?? []`
StoredOrEmpty ==
  LET stored == getPermissionsFromStorage(storage)
  IN IF stored.kind \in {"undefined", "null"} THEN JsArray("install", <<>>)
     ELSE stored

\* app.use(plugin, options): with fetchPermissions the call waits for the
\* fetch at line 21, without it the call runs to its end
Install(options) ==
  /\ installing = JsNull
  /\ IF options.fetchPermissions
       THEN /\ installing' = options
            /\ last' = [op |-> "install.await"]
            /\ UNCHANGED <<permissionCache, now, globalPermissions,
                           globalReactivePermissions, heldPermissions,
                           sourceType, storage, pending,
                           cacheWithout, guardOptions, el,
                           checkedRule>>
       ELSE IF Truthy(options.permissions)
         THEN InstallFinish(normalizePermissions(options.permissions), options,
                            NotFetched)
         ELSE InstallFinish(StoredOrEmpty, options, NotFetched)

\* The fetch resolves with `fetched`
InstallFetched(fetched) ==
  /\ installing # JsNull
  /\ InstallFinish(fetched, installing, fetched)

\* The fetch rejects
InstallFetchFailed ==
  /\ installing # JsNull
  /\ InstallFinish(StoredOrEmpty, installing, FetchRejected)

\* What reading the value of a Vue ref gives for the array it holds: the
\* array's reactive proxy, an object other than the array and the same one
\* at every read; the proxy of a proxy is that proxy
toReactive(v) ==
  IF ~IsArray(v) THEN v
  ELSE JsArray(CASE v.ref = "global" -> "global, reactive"
                 [] v.ref = "unconfigured" -> "unconfigured, reactive"
                 [] v.ref = "stored" -> "stored, reactive"
                 [] v.ref = "initial" -> "initial, reactive"
                 [] v.ref = "refreshed" -> "refreshed, reactive"
                 [] v.ref = "set" -> "set, reactive"
                 [] v.ref = "fetched" -> "fetched, reactive"
                 [] v.ref = "normalized" -> "normalized, reactive"
                 [] v.ref = "install" -> "install, reactive"
                 [] v.ref = "held" -> "held, reactive"
                 [] OTHER -> v.ref,
               v.items)

\* What a call gave: its value, or the exception it threw
Returned(b) == JsBoolean(b)
Thrown == [kind |-> "throws"]

\* The `if (mode === ...)` chain of canSync (lines 58-75); a pattern that
\* `new RegExp` rejects is caught and matches nothing; no mode matched
\* falls through to `return false`
canSyncMode(p, mode, held) ==
  LET P == p.items
      C == held.items
  IN IF mode = JsString(S_and)
       THEN \A i \in 1..Len(P) : Includes(C, P[i])
     ELSE IF mode = JsString(S_or)
       THEN \E i \in 1..Len(P) : Includes(C, P[i])
     ELSE IF mode = JsString(S_not)
       THEN ~(\E i \in 1..Len(P) : Includes(C, P[i]))
     ELSE IF mode = JsString(S_startWith)
       THEN \E i \in 1..Len(P) : \E j \in 1..Len(C) :
              StartsWith(C[j].str, P[i].str)
     ELSE IF mode = JsString(S_endWith)
       THEN \E i \in 1..Len(P) : \E j \in 1..Len(C) :
              EndsWith(C[j].str, P[i].str)
     ELSE IF mode = JsString(S_regex)
       THEN \E i \in 1..Len(P) :
              /\ RegExpCompiles(P[i].str)
              /\ \E j \in 1..Len(C) : RegExpTest(P[i].str, C[j].str)
     ELSE FALSE

\* canSync(rule) of an instance whose permissions.value is `held`.
\* `typeof rule === "object" && rule.permissions` reads a property of null
\* when rule is null, which throws a TypeError.
canSync(rule, held) ==
  IF rule = JsString(S_star) THEN Returned(TRUE)
  ELSE IF rule.kind = "string" THEN Returned(Includes(held.items, rule))
  ELSE IF IsArray(rule)
    THEN IF Includes(rule.items, JsString(S_star)) THEN Returned(TRUE)
         ELSE Returned(\E i \in 1..Len(rule.items) :
                         Includes(held.items, rule.items[i]))
  ELSE IF rule.kind = "null" THEN Thrown
  ELSE IF rule.kind = "object"
          /\ Truthy(GetProp(rule, S_permissions))
          /\ Truthy(GetProp(rule, S_mode))
    THEN LET p == GetProp(rule, S_permissions)
             mode == GetProp(rule, S_mode)
         IN IF ~IsArray(p) \/ Len(p.items) = 0 THEN Returned(FALSE)
            ELSE IF Includes(p.items, JsString(S_star)) THEN Returned(TRUE)
            ELSE Returned(canSyncMode(p, mode, held))
  ELSE Returned(FALSE)

\* can(rule): hasPermission(rule, permissions.value), when nothing runs
\* between its lookup and its store
Can(rule) ==
  LET held == toReactive(heldPermissions)
      r == hasPermission(rule, held, globalPermissions, permissionCache, now)
  IN /\ sourceType # "none"
     /\ permissionCache' = r.cache
     /\ last' = [op |-> "can", rule |-> rule, permissions |-> held,
                 result |-> Returned(r.result)]
     /\ UNCHANGED <<now, globalPermissions, heldPermissions, checkedRule,
                    applicationVars>>

CanSync(rule) ==
  LET held == toReactive(heldPermissions)
  IN /\ sourceType # "none"
     /\ last' = [op |-> "canSync", rule |-> rule, permissions |-> held,
                 result |-> canSync(rule, held)]
     /\ UNCHANGED <<permissionCache, now, globalPermissions, heldPermissions,
                    checkedRule, applicationVars>>

\* hasAll(perms) and hasAny(perms): `empty` is what they return without a
\* check, `mode` the mode of the rule they hand to can
CanEach(name, perms, empty, mode) ==
  LET held == toReactive(heldPermissions)
      rule == JsObject("rule", <<Prop(S_permissions, perms),
                                 Prop(S_mode, JsString(mode))>>)
      r == hasPermission(rule, held, globalPermissions, permissionCache, now)
      direct == ~IsArray(perms) \/ Len(perms.items) = 0
  IN /\ sourceType # "none"
     /\ permissionCache' = IF direct THEN permissionCache ELSE r.cache
     /\ last' = [op |-> name, perms |-> perms, permissions |-> held,
                 result |-> Returned(IF direct THEN empty ELSE r.result)]
     /\ UNCHANGED <<now, globalPermissions, heldPermissions, checkedRule,
                    applicationVars>>

HasAll(perms) == CanEach("hasAll", perms, TRUE, S_and)
HasAny(perms) == CanEach("hasAny", perms, FALSE, S_or)

----------------------------------------------------------------------------
(* hasPermission as the engine runs it: the call runs to                   *)
(* `await evaluate(permissionValue)` (line 167), where it is suspended     *)
(* with its key and its verdict, and it is resumed later, in the order of  *)
(* suspension, to store and return (lines 168-169).  A cache hit returns   *)
(* at line 104.                                                            *)

\* The most calls suspended at a time
MaxPending == 1

HasPermissionLookup(permissionValue, userPermissions) ==
  LET current == IF userPermissions.kind \in {"undefined", "null"}
                   THEN getCurrentPermissions(globalPermissions)
                   ELSE userPermissions
      cacheKey == cacheKeyOf(permissionValue, current)
      cached == getCachedPermission(permissionCache, cacheKey, now)
  IN /\ permissionCache' = cached.cache
     /\ IF cached.result.kind # "null"
          THEN /\ pending' = pending
               /\ last' = [op |-> "hasPermission",
                           permissionValue |-> permissionValue,
                           userPermissions |-> userPermissions,
                           result |-> cached.result.bool]
          ELSE /\ Len(pending) < MaxPending
               /\ pending' = Append(pending,
                    [permissionValue |-> permissionValue,
                     userPermissions |-> userPermissions,
                     cacheKey |-> cacheKey,
                     result |-> evaluate(permissionValue, current)])
               /\ last' = [op |-> "hasPermission.await",
                           permissionValue |-> permissionValue,
                           userPermissions |-> userPermissions]
     /\ UNCHANGED <<now, globalPermissions, globalReactivePermissions,
                    heldPermissions, sourceType, storage, installing,
                    cacheWithout, guardOptions, el, checkedRule>>

HasPermissionStore ==
  /\ pending # <<>>
  /\ LET call == Head(pending)
     IN /\ permissionCache' = setCachedPermission(permissionCache,
                                call.cacheKey, call.result, now)
        /\ last' = [op |-> "hasPermission",
                    permissionValue |-> call.permissionValue,
                    userPermissions |-> call.userPermissions,
                    result |-> call.result]
  /\ pending' = Tail(pending)
  /\ UNCHANGED <<now, globalPermissions, globalReactivePermissions,
                 heldPermissions, sourceType, storage, installing,
                 cacheWithout, guardOptions, el, checkedRule>>

----------------------------------------------------------------------------
(* SpecApp: an application that installs the plugin, creates a             *)
(* usePermission instance, changes and reloads its list and checks rules,  *)
(* in any order, with calls suspended at their `await`.                    *)

AppRules == {JsString(P_a)}
AppNewPerms ==
  {JsArray("set", <<JsString(P_a)>>), JsString(P_a)}
AppFetched == {JsArray("fetched", <<JsString(P_b)>>)}
\* install's options: none, a list, a fetch, a fetch without persistence
AppOptions ==
  {[fetchPermissions |-> FALSE, permissions |-> JsUndefined,
    persist |-> JsUndefined],
   [fetchPermissions |-> FALSE,
    permissions |-> JsArray("options", <<JsString(P_a)>>),
    persist |-> JsUndefined],
   [fetchPermissions |-> TRUE, permissions |-> JsUndefined,
    persist |-> JsUndefined],
   [fetchPermissions |-> TRUE, permissions |-> JsUndefined,
    persist |-> JsBoolean(FALSE)]}
\* localStorage at start: none, no item, a saved list, an item that is not
\* base64
AppStorage ==
  {NoStorage, JsNull,
   JsString(encrypt(JsArray("saved", <<JsString(P_a)>>))),
   JsString(<<"%">>)}

InitApp ==
  /\ permissionCache = <<>>
  /\ now = 0
  /\ globalPermissions = JsNull
  /\ globalReactivePermissions = JsArray("reactive", <<>>)
  /\ heldPermissions = JsUndefined
  /\ sourceType = "none"
  /\ storage \in AppStorage
  /\ installing = JsNull
  /\ pending = <<>>
  /\ cacheWithout = <<>>
  /\ guardOptions = JsUndefined
  /\ el = JsUndefined
  /\ checkedRule = JsUndefined
  /\ last = [op |-> "init"]

NextApp ==
  \/ UsePermission
  \/ Refresh
  \/ \E newPerms \in AppNewPerms : SetPermissions(newPerms)
  \/ \E options \in AppOptions : Install(options)
  \/ \E fetched \in AppFetched : InstallFetched(fetched)
  \/ InstallFetchFailed
  \/ \E rule \in AppRules :
       \E userPermissions \in
           {JsUndefined} \cup
           (IF sourceType = "none" THEN {}
            ELSE {toReactive(heldPermissions)}) :
         HasPermissionLookup(rule, userPermissions)
  \/ HasPermissionStore
  \/ ClearPermissionCache
  \/ Tick(CACHE_TTL + 1)

SpecApp == InitApp /\ [][NextApp]_vars

----------------------------------------------------------------------------
(* SpecConfig: the global configuration is set and changed (a list, a Ref  *)
(* whose value the application replaces) between calls of the two          *)
(* evaluators, made with and without a held list.                          *)

\* configurePermission(permissions); `entriesBefore` counts the entries the
\* cache held at the call
ConfigurePermission(permissions) ==
  LET configured == configurePermission(permissions)
  IN /\ globalPermissions' = configured.permissions
     /\ globalReactivePermissions' = configured.reactive
     /\ last' = [op |-> "configurePermission",
                 entriesBefore |-> Len(permissionCache)]
     /\ UNCHANGED <<permissionCache, now, heldPermissions, sourceType,
                    storage, installing, pending,
                    cacheWithout, guardOptions, el, checkedRule>>

\* The application assigns to the value of the configured Ref
SetRefValue(value) ==
  /\ globalPermissions.kind = "ref"
  /\ globalPermissions' = JsRef(value)
  /\ last' = [op |-> "ref.value"]
  /\ UNCHANGED <<permissionCache, now, globalReactivePermissions,
                 heldPermissions, sourceType, storage, installing, pending,
                 cacheWithout, guardOptions, el, checkedRule>>

ConfigLists ==
  {JsArray("global", xs) : xs \in {<<>>, <<JsString(P_a)>>, <<JsString(P_b)>>}}
ConfigValues == ConfigLists \cup {JsRef(l) : l \in ConfigLists}
\* The rules checked: a name, a list, no rule, and the configured list itself
ConfigRules ==
  {JsString(P_a), JsArray("list", <<JsString(P_b)>>), JsUndefined,
   getCurrentPermissions(globalPermissions)}

InitConfig ==
  /\ permissionCache = <<>>
  /\ now = 0
  /\ globalPermissions = JsNull
  /\ Standalone
  /\ heldPermissions = JsArray("held", <<JsString(P_a)>>)
  /\ checkedRule = JsUndefined
  /\ last = [op |-> "init"]

NextConfig ==
  \/ \E permissions \in ConfigValues : ConfigurePermission(permissions)
  \/ \E value \in ConfigLists : SetRefValue(value)
  \/ \E rule \in ConfigRules :
       \E userPermissions \in {JsUndefined, heldPermissions} :
         \/ HasPermission(rule, userPermissions)
         \/ CheckPermissionSync(rule, userPermissions)
  \/ ClearPermissionCache
  \/ Tick(CACHE_TTL + 1)

SpecConfig == InitConfig /\ [][NextConfig]_vars

----------------------------------------------------------------------------
(* SpecInstance: one usePermission instance, created (and created again)   *)
(* while the global configuration and the storage change, whose list is    *)
(* set and reloaded and whose checks are called with rules of every shape. *)

InstanceNewPerms ==
  {JsArray("set", <<JsString(P_a)>>), JsArray("set", <<JsString(P_b)>>),
   JsString(P_a)}
InstanceConfig ==
  {JsArray("global", <<JsString(P_a)>>), JsArray("global", <<>>)}

InitInstance ==
  /\ permissionCache = <<>>
  /\ now = 0
  /\ globalPermissions = JsNull
  /\ globalReactivePermissions = JsArray("reactive", <<>>)
  /\ heldPermissions = JsUndefined
  /\ sourceType = "none"
  /\ storage \in AppStorage
  /\ installing = JsNull
  /\ pending = <<>>
  /\ cacheWithout = <<>>
  /\ guardOptions = JsUndefined
  /\ el = JsUndefined
  /\ checkedRule = JsUndefined
  /\ last = [op |-> "init"]

NextInstance ==
  \/ UsePermission
  \/ Refresh
  \/ \E newPerms \in InstanceNewPerms : SetPermissions(newPerms)
  \/ \E permissions \in InstanceConfig : ConfigurePermission(permissions)
  \/ \E rule \in InstanceRules(toReactive(heldPermissions)) :
       Can(rule) \/ CanSync(rule)
  \/ HasPermission(JsString(P_a), JsUndefined)
  \/ CheckPermissionSync(JsString(P_a), JsUndefined)
  \/ ClearPermissionCache
  \/ Tick(CACHE_TTL + 1)

SpecInstance == InitInstance /\ [][NextInstance]_vars

----------------------------------------------------------------------------
(* SpecCreate: instances are created, set and refreshed while the global   *)
(* configuration changes and the application writes and removes the        *)
(* storage item through the exported storage functions, whose argument is  *)
(* typed `any`.                                                            *)

\* savePermissionsToStorage(permissions), called by the application
SavePermissionsToStorage(permissions) ==
  /\ storage' = savePermissionsToStorage(storage, permissions)
  /\ last' = [op |-> "savePermissionsToStorage", permissions |-> permissions]
  /\ UNCHANGED <<permissionCache, now, globalPermissions,
                 globalReactivePermissions, heldPermissions, sourceType,
                 installing, pending, cacheWithout, guardOptions, el, checkedRule>>

\* clearPermissionsFromStorage(), called by the application
ClearPermissionsFromStorage ==
  /\ storage' = clearPermissionsFromStorage(storage)
  /\ last' = [op |-> "clearPermissionsFromStorage"]
  /\ UNCHANGED <<permissionCache, now, globalPermissions,
                 globalReactivePermissions, heldPermissions, sourceType,
                 installing, pending, cacheWithout, guardOptions, el, checkedRule>>

\* What the application saves: lists, and a name that is no list
CreateSaved ==
  {JsArray("saved", <<JsString(P_a)>>), JsArray("saved", <<>>),
   JsString(P_ab)}

InitCreate ==
  /\ permissionCache = <<>>
  /\ now = 0
  /\ globalPermissions = JsNull
  /\ globalReactivePermissions = JsArray("reactive", <<>>)
  /\ heldPermissions = JsUndefined
  /\ sourceType = "none"
  /\ storage \in AppStorage
  /\ installing = JsNull
  /\ pending = <<>>
  /\ cacheWithout = <<>>
  /\ guardOptions = JsUndefined
  /\ el = JsUndefined
  /\ checkedRule = JsUndefined
  /\ last = [op |-> "init"]

NextCreate ==
  \/ UsePermission
  \/ Refresh
  \/ \E newPerms \in InstanceNewPerms : SetPermissions(newPerms)
  \/ \E permissions \in ConfigValues : ConfigurePermission(permissions)
  \/ \E value \in ConfigLists : SetRefValue(value)
  \/ \E permissions \in CreateSaved : SavePermissionsToStorage(permissions)
  \/ ClearPermissionsFromStorage

SpecCreate == InitCreate /\ [][NextCreate]_vars

----------------------------------------------------------------------------
(* SpecStorage: the three storage functions alone, called in any order on  *)
(* a storage that is missing (outside a browser), that throws at every     *)
(* call, or that works and holds nothing, a saved list, or text that is    *)
(* no encoding of anything.                                                *)

\* What the caller saw of the call before this one
PreviousCall ==
  [op |-> last.op,
   permissions |-> IF last.op = "savePermissionsToStorage"
                   THEN last.permissions ELSE JsNull,
   result |-> IF last.op = "getPermissionsFromStorage"
              THEN last.result ELSE JsNull]

\* getPermissionsFromStorage()
GetPermissionsFromStorage ==
  /\ last' = [op |-> "getPermissionsFromStorage",
              result |-> getPermissionsFromStorage(storage),
              previous |-> PreviousCall]
  /\ UNCHANGED <<permissionCache, now, globalPermissions,
                 globalReactivePermissions, heldPermissions, sourceType,
                 storage, installing, pending, cacheWithout, guardOptions, el,
                 checkedRule>>

StorageNames == {P_a, P_b, <<"\"">>, <<"a", "\\">>}
StorageLists ==
  {JsArray("saved", <<>>)}
    \cup {JsArray("saved", <<JsString(p)>>) : p \in StorageNames}
    \cup {JsArray("saved", <<JsString(p), JsString(q)>>) :
            p \in StorageNames, q \in StorageNames}

InitStorage ==
  /\ permissionCache = <<>>
  /\ now = 0
  /\ globalPermissions = JsNull
  /\ globalReactivePermissions = JsArray("reactive", <<>>)
  /\ heldPermissions = JsUndefined
  /\ sourceType = "none"
  /\ storage \in AppStorage \cup {FailingStorage}
  /\ installing = JsNull
  /\ pending = <<>>
  /\ cacheWithout = <<>>
  /\ guardOptions = JsUndefined
  /\ el = JsUndefined
  /\ checkedRule = JsUndefined
  /\ last = [op |-> "init"]

NextStorage ==
  \/ \E permissions \in StorageLists : SavePermissionsToStorage(permissions)
  \/ GetPermissionsFromStorage
  \/ ClearPermissionsFromStorage

SpecStorage == InitStorage /\ [][NextStorage]_vars

----------------------------------------------------------------------------
(* SpecInstall: the plugin is installed, once or again, with every         *)
(* combination of its options, on every storage, while rules are checked   *)
(* against the global permissions and the application saves and clears     *)
(* the storage (also while install waits for fetchPermissions).            *)

InstallPermissions ==
  {JsUndefined,
   JsArray("options", <<JsString(P_a)>>),
   JsArray("no options", <<>>),
   [kind |-> "ref", value |-> JsArray("held", <<JsString(P_a), JsString(P_b)>>)]}
InstallOptions ==
  [fetchPermissions : BOOLEAN, permissions : InstallPermissions,
   persist : {JsUndefined, JsBoolean(TRUE), JsBoolean(FALSE)}]
InstallFetched_Values ==
  {JsArray("fetched", <<JsString(P_b)>>), JsArray("nothing fetched", <<>>)}
InstallSaved == {JsArray("saved", <<JsString(P_ab)>>)}

InitInstall ==
  /\ permissionCache = <<>>
  /\ now = 0
  /\ globalPermissions = JsNull
  /\ globalReactivePermissions = JsArray("reactive", <<>>)
  /\ heldPermissions = JsUndefined
  /\ sourceType = "none"
  /\ storage \in AppStorage \cup {FailingStorage}
  /\ installing = JsNull
  /\ pending = <<>>
  /\ cacheWithout = <<>>
  /\ guardOptions = JsUndefined
  /\ el = JsUndefined
  /\ checkedRule = JsUndefined
  /\ last = [op |-> "init"]

NextInstall ==
  \/ \E options \in InstallOptions : Install(options)
  \/ \E fetched \in InstallFetched_Values : InstallFetched(fetched)
  \/ InstallFetchFailed
  \/ HasPermission(JsString(P_a), JsUndefined)
  \/ \E permissions \in InstallSaved : SavePermissionsToStorage(permissions)
  \/ ClearPermissionsFromStorage

SpecInstall == InitInstall /\ [][NextInstall]_vars

----------------------------------------------------------------------------
(* SpecCan: an instance outside a browser that was given one list with     *)
(* setPermissions, and one rule, checked by can and canSync and handed to  *)
(* hasAll and hasAny, any number of times, as the cache is cleared.        *)

InitCan ==
  /\ permissionCache = <<>>
  /\ now = 0
  /\ globalPermissions = JsNull
  /\ globalReactivePermissions = JsArray("reactive", <<>>)
  /\ heldPermissions \in EvalHeld
  /\ sourceType = "empty"
  /\ storage = NoStorage
  /\ installing = JsNull
  /\ pending = <<>>
  /\ cacheWithout = <<>>
  /\ guardOptions = JsUndefined
  /\ el = JsUndefined
  /\ checkedRule \in EvalRules(toReactive(heldPermissions))
  /\ last = [op |-> "init"]

NextCan ==
  \/ Can(checkedRule)
  \/ CanSync(checkedRule)
  \/ HasAll(checkedRule)
  \/ HasAny(checkedRule)
  \/ ClearPermissionCache

SpecCan == InitCan /\ [][NextCan]_vars

----------------------------------------------------------------------------
(* SpecHas: an instance outside a browser that was given one list with     *)
(* setPermissions; hasAll and hasAny are called with lists, with the list  *)
(* read from `permissions` and with values that are no list, between       *)
(* calls of can, as time passes and the cache is cleared.                  *)

HasHeld ==
  {JsArray("held", xs) :
     xs \in {<<JsString(P_a)>>, <<JsString(P_a), JsString(P_b)>>}}

\* What hasAll and hasAny are handed: `held` is the instance's
\* `permissions.value`
HasLists(held) ==
  {JsArray("perms", xs) :
     xs \in {<<>>, <<JsString(P_a)>>, <<JsString(P_b)>>,
             <<JsString(P_a), JsString(P_b)>>}}
    \cup {held, JsString(P_a), JsUndefined}

\* The rules can is called with: a name, a rule of each of the two modes
\* and two rules without a list
HasRules ==
  {JsString(P_a),
   Structured(JsArray("perms", <<JsString(P_b)>>), JsString(S_and)),
   Structured(JsArray("perms", <<JsString(P_b)>>), JsString(S_or)),
   JsObject("rule", <<Prop(S_mode, JsString(S_and))>>),
   JsObject("rule", <<Prop(S_mode, JsString(S_or))>>)}

InitHas ==
  /\ permissionCache = <<>>
  /\ now = 0
  /\ globalPermissions = JsNull
  /\ globalReactivePermissions = JsArray("reactive", <<>>)
  /\ heldPermissions \in HasHeld
  /\ sourceType = "empty"
  /\ storage = NoStorage
  /\ installing = JsNull
  /\ pending = <<>>
  /\ cacheWithout = <<>>
  /\ guardOptions = JsUndefined
  /\ el = JsUndefined
  /\ checkedRule = JsUndefined
  /\ last = [op |-> "init"]

NextHas ==
  \/ \E perms \in HasLists(toReactive(heldPermissions)) :
       HasAll(perms) \/ HasAny(perms)
  \/ \E rule \in HasRules : Can(rule)
  \/ ClearPermissionCache
  \/ Tick(CACHE_TTL + 1)

SpecHas == InitHas /\ [][NextHas]_vars

----------------------------------------------------------------------------
(* guards/globalGuard.ts and runtime/plugin.ts: the navigation guards.     *)
(* A route location `to` is [path, meta], its meta [requiresAuth,          *)
(* checkPermission, permissions]; a route of authRoutes or protectedRoutes *)
(* is [kind, path, meta, children] or null, a list of routes an array of   *)
(* them; GuardOptions is a record of                                       *)
(* its seven members, an absent one being undefined; a function is what it *)
(* does when it is called: it throws or it returns a value.                *)

JsFunction(throws, returns) ==
  [kind |-> "function", throws |-> throws, returns |-> returns]

\* f?.(...)
OptionalCall(f) ==
  IF f.kind \in {"undefined", "null"}
    THEN [threw |-> FALSE, called |-> FALSE, value |-> JsUndefined]
  ELSE IF f.throws
    THEN [threw |-> TRUE, called |-> TRUE, value |-> JsUndefined]
  ELSE [threw |-> FALSE, called |-> TRUE, value |-> f.returns]

\* v ?? d
Nullish(v, d) == IF v.kind \in {"undefined", "null"} THEN d ELSE v

\* The default of a destructured member or parameter
WithDefault(v, d) == IF v.kind = "undefined" THEN d ELSE v

Path_login == <<"/", "l", "o", "g", "i", "n">>
Path_home == <<"/">>

\* Scaled: 50 in the source.
MAX_ROUTE_DEPTH == 2

\* What a guard run has done so far: the arguments of its calls of next
\* (<<>> for next()), the callbacks it called, the Map, whether it threw
Ran(calls, callbacks, m) ==
  [threw |-> FALSE, calls |-> calls, callbacks |-> callbacks, cache |-> m,
   logged |-> "", propagated |-> FALSE]
ThrewAt(callbacks, m) ==
  [threw |-> TRUE, calls |-> <<>>, callbacks |-> callbacks, cache |-> m,
   logged |-> "", propagated |-> FALSE]

\* findAccessibleRoute(routes, userPermissions, basePath, depth): the path
\* found or null, the Map afterwards, and whether it threw (`route.path` of
\* a route that is null)
RECURSIVE findAccessibleRoute(_, _, _, _, _, _, _)
RECURSIVE findAccessibleRouteFrom(_, _, _, _, _, _, _, _)
RECURSIVE findAccessibleRouteAt(_, _, _, _, _, _, _, _)

\* The loop's body for routes[i], once hasPermission has given r
findAccessibleRouteAt(r, i, routes, userPermissions, basePath, depth, g, t) ==
  LET route == routes.items[i]
      fullPath == JsString(basePath \o route.path.str)
      child ==
        IF route.children.kind \notin {"undefined", "null"}
             /\ Len(route.children.items) > 0
          THEN findAccessibleRoute(route.children, userPermissions,
                                   fullPath.str, depth + 1, g, r.cache, t)
          ELSE [threw |-> FALSE, path |-> JsNull, cache |-> r.cache]
  IN IF r.result
       THEN [threw |-> FALSE, path |-> fullPath, cache |-> r.cache]
     ELSE IF child.threw \/ Truthy(child.path) THEN child
     ELSE findAccessibleRouteFrom(i + 1, routes, userPermissions, basePath,
                                  depth, g, child.cache, t)

findAccessibleRouteFrom(i, routes, userPermissions, basePath, depth, g, m, t) ==
  IF i > Len(routes.items)
    THEN [threw |-> FALSE, path |-> JsNull, cache |-> m]
  ELSE IF routes.items[i].kind \in {"undefined", "null"}
    THEN [threw |-> TRUE, path |-> JsNull, cache |-> m]
  ELSE findAccessibleRouteAt(
         hasPermission(Nullish(routes.items[i].meta.permissions,
                               JsString(S_star)),
                       userPermissions, g, m, t),
         i, routes, userPermissions, basePath, depth, g, t)

\* The search without its protection against depth
findAccessibleRoute_AnyDepth(routes, userPermissions, basePath, depth, g, m, t) ==
  findAccessibleRouteFrom(1, routes, userPermissions, basePath, depth, g, m, t)

findAccessibleRoute(routes, userPermissions, basePath, depth, g, m, t) ==
  IF depth > MAX_ROUTE_DEPTH
    THEN [threw |-> FALSE, path |-> JsNull, cache |-> m]
    ELSE findAccessibleRouteFrom(1, routes, userPermissions, basePath, depth,
                                 g, m, t)

\* authRoutes.some((r) => r.path === to.path)
isAuthRoute(authRoutes, to) ==
  \E i \in 1..Len(authRoutes.items) :
    StrictEquals(authRoutes.items[i].path, to.path)

requiresAuth_Never(to) == JsBoolean(FALSE)

\* to.meta?.requiresAuth ?? false
requiresAuth(to) ==
  IF to.meta.kind \in {"undefined", "null"} THEN JsBoolean(FALSE)
  ELSE Nullish(to.meta.requiresAuth, JsBoolean(FALSE))

\* to.meta?.checkPermission ?? false
checkPermission(to) ==
  IF to.meta.kind \in {"undefined", "null"} THEN JsBoolean(FALSE)
  ELSE Nullish(to.meta.checkPermission, JsBoolean(FALSE))

\* to.meta?.permissions
metaPermissions(to) ==
  IF to.meta.kind \in {"undefined", "null"} THEN JsUndefined
  ELSE to.meta.permissions

\* callback?.(to, from); return next(target)
CallThenNext(callback, name, target, m) ==
  LET c == OptionalCall(callback)
      callbacks == IF c.called THEN <<name>> ELSE <<>>
  IN IF c.threw THEN ThrewAt(callbacks, m) ELSE Ran(<<target>>, callbacks, m)

\* The statements of the guards' try block
guardTry(to, options, getAuthState, g, m, t) ==
  LET authRoutes == WithDefault(options.authRoutes, JsArray("default", <<>>))
      protectedRoutes ==
        WithDefault(options.protectedRoutes, JsArray("default", <<>>))
      loginPath == WithDefault(options.loginPath, JsString(Path_login))
      homePath == WithDefault(options.homePath, JsString(Path_home))
      got == OptionalCall(getAuthState)
  IN IF got.threw THEN ThrewAt(<<>>, m)
     ELSE
       LET authState ==
             Nullish(got.value, [kind |-> "object",
                                 isAuthenticated |-> JsBoolean(FALSE),
                                 permissions |-> JsUndefined])
           isAuthenticated == authState.isAuthenticated
           userPermissions ==
             Nullish(authState.permissions, getCurrentPermissions(g))
       IN IF ~Truthy(isAuthenticated) /\ Truthy(requiresAuth(to))
            THEN CallThenNext(options.onDenied, "onDenied", <<loginPath>>, m)
          ELSE IF Truthy(isAuthenticated) /\ isAuthRoute(authRoutes, to)
            THEN CallThenNext(options.onAllowed, "onAllowed", <<homePath>>, m)
          ELSE IF Truthy(checkPermission(to)) /\ Truthy(metaPermissions(to))
            THEN
              LET allowed == hasPermission(metaPermissions(to),
                                           userPermissions, g, m, t)
                  denied == OptionalCall(options.onDenied)
                  fallback ==
                    findAccessibleRoute(protectedRoutes, userPermissions,
                                        <<>>, 0, g, allowed.cache, t)
                  callbacks == IF denied.called THEN <<"onDenied">> ELSE <<>>
              IN IF allowed.result
                   THEN CallThenNext(options.onAllowed, "onAllowed", <<>>,
                                     allowed.cache)
                 ELSE IF denied.threw THEN ThrewAt(callbacks, allowed.cache)
                 ELSE IF fallback.threw THEN ThrewAt(callbacks, fallback.cache)
                 ELSE Ran(<<IF Truthy(fallback.path)
                              THEN <<fallback.path>>
                              ELSE <<loginPath>>>>,
                          callbacks, fallback.cache)
          ELSE CallThenNext(options.onAllowed, "onAllowed", <<>>, m)

guardCatch_Rethrows(ran, options, prefix) ==
  IF ran.threw THEN [ran EXCEPT !.propagated = TRUE] ELSE ran

\* catch (e) { console.error(prefix, e); next(loginPath); }
guardCatch(ran, options, prefix) ==
  IF ran.threw
    THEN [ran EXCEPT
            !.logged = prefix,
            !.calls = Append(ran.calls,
                        <<WithDefault(options.loginPath, JsString(Path_login))>>)]
    ELSE ran

\* globalGuard(to, from, next, options)
globalGuard(to, options, getAuthState, g, m, t) ==
  guardCatch(guardTry(to, options, getAuthState, g, m, t), options,
             "[v-permission:globalGuard] Unexpected error:")

\* createPermissionGuard(options)(to, from, next): the same statements
createPermissionGuard(options, to, getAuthState, g, m, t) ==
  guardCatch(guardTry(to, options, getAuthState, g, m, t), options,
             "[v-permission:guard] Unexpected error:")

\* One navigation through the registered guard; getAuthState is what the
\* option of that name does at this call, undefined when there is none
GuardRun(name, ran, to, getAuthState) ==
  /\ guardOptions.kind = "options"
  /\ guardOptions.guard = name
  /\ (guardOptions.getAuthState.kind = "undefined") =
       (getAuthState.kind = "undefined")
  /\ permissionCache' = ran.cache
  /\ last' = [op |-> name, to |-> to, getAuthState |-> getAuthState,
              calls |-> ran.calls, callbacks |-> ran.callbacks,
              logged |-> ran.logged, propagated |-> ran.propagated]
  /\ UNCHANGED <<now, globalPermissions, heldPermissions, checkedRule,
                 applicationVars>>

GlobalGuard(to, getAuthState) ==
  GuardRun("globalGuard",
           globalGuard(to, guardOptions, getAuthState, globalPermissions,
                       permissionCache, now),
           to, getAuthState)

PermissionGuard(to, getAuthState) ==
  GuardRun("createPermissionGuard",
           createPermissionGuard(guardOptions, to, getAuthState,
                                 globalPermissions, permissionCache, now),
           to, getAuthState)

----------------------------------------------------------------------------
(* SpecGuard: a router whose beforeEach guard is globalGuard with its      *)
(* options, or the guard createPermissionGuard made of them, in an         *)
(* application configured with the list ["a"]; navigations to a public     *)
(* page and to the login page, with every route meta, while the auth       *)
(* store's answer changes from call to call.                               *)

Path_page == <<"/", "p">>
Path_signin == <<"/", "i", "n">>
Path_start == <<"/", "s">>
Path_child == <<"/", "c">>

Route(path, permissions, children) ==
  [kind |-> "object", path |-> JsString(path),
   meta |-> [kind |-> "object", permissions |-> permissions],
   children |-> children]

NoOptions ==
  [kind |-> "options", authRoutes |-> JsUndefined,
   protectedRoutes |-> JsUndefined, getAuthState |-> JsUndefined,
   loginPath |-> JsUndefined, homePath |-> JsUndefined,
   onDenied |-> JsUndefined, onAllowed |-> JsUndefined]

LoginRoutes == JsArray("authRoutes", <<Route(Path_login, JsUndefined, JsUndefined)>>)
Returns == JsFunction(FALSE, JsUndefined)
Throws == JsFunction(TRUE, JsUndefined)

\* protectedRoutes: a page for "b" with a child open to all; then a null
\* route after a page for "b"
NestedRoutes ==
  JsArray("protectedRoutes",
    <<Route(Path_page, JsString(P_b),
            JsArray("children", <<Route(Path_child, JsUndefined, JsUndefined)>>))>>)
BrokenRoutes ==
  JsArray("protectedRoutes", <<Route(Path_page, JsString(P_b), JsUndefined), JsNull>>)

GuardOptionsPool ==
  {NoOptions,
   [NoOptions EXCEPT !.getAuthState = Returns, !.authRoutes = LoginRoutes],
   [NoOptions EXCEPT !.getAuthState = Returns, !.authRoutes = LoginRoutes,
                     !.loginPath = JsString(Path_signin),
                     !.homePath = JsString(Path_start),
                     !.onDenied = Returns, !.onAllowed = Returns,
                     !.protectedRoutes = NestedRoutes],
   [NoOptions EXCEPT !.getAuthState = Returns, !.authRoutes = LoginRoutes,
                     !.onDenied = Throws],
   [NoOptions EXCEPT !.getAuthState = Returns, !.authRoutes = LoginRoutes,
                     !.onAllowed = Throws],
   [NoOptions EXCEPT !.getAuthState = Returns,
                     !.protectedRoutes = BrokenRoutes]}

\* What getAuthState does at one call
AuthState(isAuthenticated, permissions) ==
  [kind |-> "object", isAuthenticated |-> JsBoolean(isAuthenticated),
   permissions |-> permissions]
GuardAuthStates ==
  {JsFunction(TRUE, JsUndefined),
   JsFunction(FALSE, JsUndefined),
   JsFunction(FALSE, AuthState(FALSE, JsUndefined)),
   JsFunction(FALSE, AuthState(TRUE, JsUndefined)),
   JsFunction(FALSE, AuthState(TRUE, JsArray("user", <<JsString(P_a)>>))),
   JsFunction(FALSE, AuthState(TRUE, JsArray("user", <<>>)))}

GuardMetas ==
  {JsUndefined}
    \cup [kind : {"object"},
          requiresAuth : {JsUndefined, JsBoolean(TRUE)},
          checkPermission : {JsUndefined, JsBoolean(TRUE)},
          permissions : {JsUndefined, JsString(P_a)}]
GuardTargets ==
  [path : {JsString(Path_login), JsString(Path_page)}, meta : GuardMetas]

InitGuard ==
  /\ permissionCache = <<>>
  /\ now = 0
  /\ globalPermissions = JsArray("global", <<JsString(P_a)>>)
  /\ globalReactivePermissions = JsArray("reactive", <<JsString(P_a)>>)
  /\ heldPermissions = JsUndefined
  /\ sourceType = "none"
  /\ storage = JsNull
  /\ installing = JsNull
  /\ pending = <<>>
  /\ cacheWithout = <<>>
  /\ guardOptions \in
       {[guard |-> name] @@ options :
          name \in {"globalGuard", "createPermissionGuard"},
          options \in GuardOptionsPool}
  /\ el = JsUndefined
  /\ checkedRule = JsUndefined
  /\ last = [op |-> "init"]

NextGuard ==
  \/ \E to \in GuardTargets, getAuthState \in GuardAuthStates \cup {JsUndefined} :
       \/ GlobalGuard(to, getAuthState)
       \/ PermissionGuard(to, getAuthState)
  \/ ClearPermissionCache
  \/ Tick(CACHE_TTL + 1)

SpecGuard == InitGuard /\ [][NextGuard]_vars

----------------------------------------------------------------------------
(* SpecRoutes: the guards with protectedRoutes nested one level deeper     *)
(* than MAX_ROUTE_DEPTH lets the search go, every route of the tree open   *)
(* or kept for "a" or for "b"; navigations to a page kept for "a" or for   *)
(* "b" by users who hold "a", "b", nothing, or no list of their own.       *)

Path_deep == <<"/", "d">>
Path_deeper == <<"/", "e">>
Path_next == <<"/", "n">>
Path_other == <<"/", "o">>
P_e == <<"e">>

RouteRules == {JsUndefined, JsString(P_a), JsString(P_b)}

\* /p [ /c [ /d [ /e ] ], /n ], /o: the route /p/c/d/e, open to whoever
\* holds "e" or open to all, lies below the depth the search goes to
RouteTree(page, child, deep, deeper, nextChild, other) ==
  JsArray("protectedRoutes",
    <<Route(Path_page, page,
        JsArray("children of /p",
          <<Route(Path_child, child,
              JsArray("children of /p/c",
                <<Route(Path_deep, deep,
                    JsArray("children of /p/c/d",
                      <<Route(Path_deeper, deeper, JsUndefined)>>))>>)),
            Route(Path_next, nextChild, JsArray("no children", <<>>))>>)),
      Route(Path_other, other, JsUndefined)>>)

RouteTrees ==
  {RouteTree(page, child, deep, deeper, nextChild, other) :
     page \in RouteRules, child \in RouteRules, deep \in RouteRules,
     deeper \in {JsUndefined, JsString(P_e)},
     nextChild \in {JsString(P_b)}, other \in RouteRules}

RoutesOptionsPool ==
  {[NoOptions EXCEPT !.getAuthState = Returns, !.protectedRoutes = routes,
                     !.onDenied = onDenied,
                     !.loginPath = JsString(Path_signin)] :
     routes \in RouteTrees, onDenied \in {JsUndefined, Throws}}

RoutesAuthStates ==
  {JsFunction(FALSE, AuthState(TRUE, JsArray("user", <<JsString(P_a)>>))),
   JsFunction(FALSE, AuthState(TRUE, JsArray("other user", <<JsString(P_b)>>))),
   JsFunction(FALSE, AuthState(TRUE, JsArray("holder", <<JsString(P_e)>>))),
   JsFunction(FALSE, AuthState(FALSE, JsArray("nobody", <<>>))),
   JsFunction(FALSE, AuthState(TRUE, JsUndefined))}

RoutesTargets ==
  [path : {JsString(Path_start)},
   meta : [kind : {"object"}, requiresAuth : {JsUndefined},
           checkPermission : {JsBoolean(TRUE)},
           permissions : {JsString(P_a), JsString(P_b)}]]

InitRoutes ==
  /\ permissionCache = <<>>
  /\ now = 0
  /\ globalPermissions = JsArray("global", <<JsString(P_a)>>)
  /\ globalReactivePermissions = JsArray("reactive", <<JsString(P_a)>>)
  /\ heldPermissions = JsUndefined
  /\ sourceType = "none"
  /\ storage = JsNull
  /\ installing = JsNull
  /\ pending = <<>>
  /\ cacheWithout = <<>>
  /\ guardOptions \in
       {[guard |-> name] @@ options :
          name \in {"globalGuard", "createPermissionGuard"},
          options \in RoutesOptionsPool}
  /\ el = JsUndefined
  /\ checkedRule = JsUndefined
  /\ last = [op |-> "init"]

NextRoutes ==
  \/ \E to \in RoutesTargets, getAuthState \in RoutesAuthStates :
       \/ GlobalGuard(to, getAuthState)
       \/ PermissionGuard(to, getAuthState)
  \/ ClearPermissionCache

SpecRoutes == InitRoutes /\ [][NextRoutes]_vars

----------------------------------------------------------------------------
(* directives/v-permission.ts: the element the directive is on, the child  *)
(* nodes of its parent, and the three hooks. `children` is the parent's    *)
(* childNodes, `style` the element's inline display ("" when it has none), *)
(* `css` the display its style sheets give it.                             *)

\* At most this many evaluations are in flight at once
MaxEvaluations == 2

Allowed == "allowed"
Denied == "denied"

\* el.parentNode: the element is a child of the parent
InDOM(e) == \E i \in 1..Len(e.children) : e.children[i] = "el"
CommentInDOM(e) == \E i \in 1..Len(e.children) : e.children[i] = "comment"

\* window.getComputedStyle(el).display of an element in the document: the
\* inline display when there is one, else what the style sheets give
computedDisplay(e) == IF e.style # "" THEN e.style ELSE e.css

\* `computed.display || el.style.display || ""`
capturedDisplay(e) ==
  IF computedDisplay(e) # "" THEN computedDisplay(e) ELSE e.style

\* createComment; store parent, next sibling and comment; el.replaceWith(comment)
replaceWithComment(e) ==
  [e EXCEPT !.children = [i \in 1..Len(e.children) |->
                            IF e.children[i] = "el" THEN "comment"
                            ELSE e.children[i]],
            !.vPermissionParent = TRUE,
            !.vPermissionComment = TRUE]

\* comment.replaceWith(el), and parent.insertBefore(el, comment) followed
\* by comment.remove(): the element takes the place of the comment
putBack_KeepsComment(e) ==
  [e EXCEPT !.children =
     IF CommentInDOM(e)
       THEN LET k == CHOOSE i \in 1..Len(e.children) : e.children[i] = "comment"
            IN SubSeq(e.children, 1, k - 1) \o <<"el", "comment">>
                 \o SubSeq(e.children, k + 1, Len(e.children))
       ELSE e.children]

putBack(e) ==
  [e EXCEPT !.children = [i \in 1..Len(e.children) |->
                            IF e.children[i] = "comment" THEN "el"
                            ELSE e.children[i]]]

\* The branch for a granted permission (lines 46-59, 192-207)
applyAllowed(e) ==
  LET restored ==
        IF e.vPermissionComment
          THEN [(IF e.vPermissionParent /\ ~InDOM(e) THEN putBack(e) ELSE e)
                  EXCEPT !.vPermissionComment = FALSE]
          ELSE e
  IN [restored EXCEPT
        !.style = IF e.show THEN e.vPermissionOriginalDisplay ELSE @,
        !.applied = Allowed]

\* The branch for a denied permission (lines 61-75, 178-191)
applyDenied(e) ==
  [(IF e.show THEN [e EXCEPT !.style = "none"]
    ELSE IF InDOM(e) /\ ~e.vPermissionComment THEN replaceWithComment(e)
    ELSE e)
     EXCEPT !.applied = Denied]

\* mounted's branch for a denied permission (lines 113-128): it does not
\* look at _vPermissionComment
applyDeniedAtMount(e) ==
  [(IF e.show THEN [e EXCEPT !.style = "none"]
    ELSE IF InDOM(e) THEN replaceWithComment(e)
    ELSE e)
     EXCEPT !.applied = Denied]

\* mounted(el, binding): `binding` holds the value (the Ref's value when
\* the binding is a Ref), the argument and the modifiers
mounted(node, binding, g) ==
  LET e == [kind |-> "element",
            children |-> node.children, style |-> node.style,
            css |-> node.css,
            value |-> binding.value, valueRef |-> binding.valueRef,
            show |-> binding.show, once |-> binding.once,
            lazy |-> binding.lazy,
            vPermissionOriginalDisplay |-> capturedDisplay(node),
            vPermissionSkipUpdates |-> binding.once,
            vPermissionParent |-> FALSE,
            vPermissionComment |-> FALSE,
            evaluations |-> <<>>,
            unmounted |-> FALSE,
            applied |-> Allowed,
            displayAtMount |-> computedDisplay(node),
            updatedFor |-> JsUndefined]
  IN IF checkPermissionSync(binding.value, JsUndefined, g) THEN e
     ELSE applyDeniedAtMount(e)

\* The synchronous part of hasPermission(value) that evaluateAndUpdate
\* awaits: the verdict, whether it came from the cache, and the Map after
\* the lookup
startEvaluation(value, g, m, t) ==
  LET current == getCurrentPermissions(g)
      cacheKey == cacheKeyOf(value, current)
      cached == getCachedPermission(m, cacheKey, t)
      hit == cached.result.kind # "null"
  IN [evaluation |->
        [value |-> value, cacheKey |-> cacheKey, hit |-> hit,
         allowed |-> IF hit THEN cached.result.bool
                     ELSE evaluate(value, current)],
      cache |-> cached.cache]

\* An updated hook that goes on whatever the once modifier
skipsUpdates_Never(e) == FALSE

\* `if (el._vPermissionSkipUpdates) return;`
skipsUpdates(e) == e.vPermissionSkipUpdates

\* updated(el, binding) up to the call of evaluateAndUpdate; the old value
\* of a Ref binding is the Ref, whose value is the new value
updated(e, value, g) ==
  LET oldValue == IF e.valueRef THEN value ELSE e.value
      valueChanged == JsonStringify(value) # JsonStringify(oldValue)
      captured == IF InDOM(e) /\ valueChanged
                    THEN [e EXCEPT !.vPermissionOriginalDisplay =
                                     capturedDisplay(e)]
                    ELSE e
  IN IF skipsUpdates(e) THEN [e EXCEPT !.value = value]
     ELSE IF valueChanged \/ ~e.lazy
       THEN [(IF checkPermissionSync(value, JsUndefined, g)
                THEN applyAllowed(captured) ELSE applyDenied(captured))
               EXCEPT !.value = value, !.updatedFor = getCurrentPermissions(g)]
     ELSE [e EXCEPT !.value = value]

\* Whether updated calls evaluateAndUpdate
evaluates(e, value) ==
  /\ ~skipsUpdates(e)
  /\ \/ ~e.lazy
     \/ JsonStringify(value)
          # JsonStringify(IF e.valueRef THEN value ELSE e.value)

\* evaluateAndUpdate after its await (lines 44-76)
evaluateAndUpdate(e, allowed) ==
  IF allowed THEN applyAllowed(e) ELSE applyDenied(e)

\* unmounted(el): the comment is removed and the fields are deleted; the
\* renderer has taken the element out of the document
unmounted(e) ==
  [e EXCEPT !.children = SelectSeq(e.children,
                                   LAMBDA c : c \notin {"el", "comment"}),
            !.vPermissionOriginalDisplay = "",
            !.vPermissionSkipUpdates = FALSE,
            !.vPermissionParent = FALSE,
            !.vPermissionComment = FALSE,
            !.unmounted = TRUE]

DirectiveUnchanged ==
  UNCHANGED <<now, globalPermissions, globalReactivePermissions,
              heldPermissions, sourceType, storage, installing, pending,
              cacheWithout, guardOptions, checkedRule>>

Mounted(node, binding) ==
  /\ el = JsUndefined
  /\ el' = mounted(node, binding, globalPermissions)
  /\ last' = [op |-> "mounted", value |-> binding.value]
  /\ UNCHANGED permissionCache
  /\ DirectiveUnchanged

\* The hook, with the evaluation it starts
Updated(value) ==
  /\ el # JsUndefined
  /\ ~el.unmounted
  /\ Len(el.evaluations) < MaxEvaluations
  /\ LET e == updated(el, value, globalPermissions)
         started == startEvaluation(value, globalPermissions,
                                    permissionCache, now)
     IN IF evaluates(el, value)
          THEN /\ el' = [e EXCEPT !.evaluations =
                                    Append(@, started.evaluation)]
               /\ permissionCache' = started.cache
          ELSE /\ el' = e
               /\ UNCHANGED permissionCache
  /\ last' = [op |-> "updated", value |-> value,
              before |-> [children |-> el.children, style |-> el.style]]
  /\ DirectiveUnchanged

\* An evaluation settles: a verdict from the cache is there one turn of
\* the microtask queue after the call, an evaluated one after the turns of
\* `await evaluate(...)`, so that the first evaluation in flight settles,
\* or a later one whose verdict came from the cache while every earlier
\* one is still being evaluated
MaySettle(i) ==
  \/ i = 1
  \/ /\ el.evaluations[i].hit
     /\ \A j \in 1..(i - 1) : ~el.evaluations[j].hit

Settled(i) ==
  /\ el # JsUndefined
  /\ i \in 1..Len(el.evaluations)
  /\ MaySettle(i)
  /\ LET call == el.evaluations[i]
         rest == SubSeq(el.evaluations, 1, i - 1)
                   \o SubSeq(el.evaluations, i + 1, Len(el.evaluations))
     IN /\ permissionCache' =
             IF call.hit THEN permissionCache
             ELSE setCachedPermission(permissionCache, call.cacheKey,
                                      call.allowed, now)
        /\ el' = [evaluateAndUpdate(el, call.allowed)
                    EXCEPT !.evaluations = rest]
        /\ last' = [op |-> "evaluateAndUpdate", value |-> call.value,
                    allowed |-> call.allowed, overtook |-> i > 1,
                    before |-> [children |-> el.children, style |-> el.style]]
  /\ DirectiveUnchanged

Unmounted ==
  /\ el # JsUndefined
  /\ ~el.unmounted
  /\ el' = unmounted(el)
  /\ last' = [op |-> "unmounted"]
  /\ UNCHANGED permissionCache
  /\ DirectiveUnchanged

----------------------------------------------------------------------------
(* SpecDirective: one element with v-permission, mounted with every        *)
(* argument and modifier, a plain binding or a Ref; its binding value      *)
(* changes and its component re-renders while the global permissions are   *)
(* replaced, the cache is cleared and started evaluations settle.          *)

DirectiveValues == {JsString(P_a), JsString(P_b)}
DirectiveLists ==
  {JsArray("global", <<JsString(P_a)>>), JsArray("global", <<JsString(P_b)>>)}
\* The element as the renderer inserts it: between two siblings, with an
\* inline display or with the display of its style sheet
DirectiveNodes ==
  {[children |-> <<"sibling", "el", "sibling">>, style |-> "flex",
    css |-> "block"],
   [children |-> <<"sibling", "el", "sibling">>, style |-> "",
    css |-> "grid"]}
DirectiveBindings ==
  [value : DirectiveValues, valueRef : BOOLEAN, show : BOOLEAN,
   once : BOOLEAN, lazy : BOOLEAN]

InitDirective ==
  /\ permissionCache = <<>>
  /\ now = 0
  /\ globalPermissions = JsArray("global", <<JsString(P_a)>>)
  /\ globalReactivePermissions = JsArray("reactive", <<JsString(P_a)>>)
  /\ heldPermissions = JsUndefined
  /\ sourceType = "none"
  /\ storage = JsNull
  /\ installing = JsNull
  /\ pending = <<>>
  /\ cacheWithout = <<>>
  /\ guardOptions = JsUndefined
  /\ el = JsUndefined
  /\ checkedRule = JsUndefined
  /\ last = [op |-> "init"]

NextDirective ==
  \/ \E node \in DirectiveNodes, binding \in DirectiveBindings :
       Mounted(node, binding)
  \/ \E value \in DirectiveValues : Updated(value)
  \/ \E i \in 1..MaxEvaluations : Settled(i)
  \/ Unmounted
  \/ \E permissions \in DirectiveLists : ConfigurePermission(permissions)
  \/ ClearPermissionCache

SpecDirective == InitDirective /\ [][NextDirective]_vars

----------------------------------------------------------------------------
(* SpecAge: the cache's own operations on a Map of capacity 3, as the      *)
(* clock ticks: inserts, overwrites, reads that expire an entry, sweeps    *)
(* and clears.                                                             *)

AgeKeys == {<<"x">>, <<"y">>, <<"z">>, <<"w">>}

AgeSetCachedPermission(key, value) ==
  /\ permissionCache' =
       setCachedPermissionOfSize(CACHE_MAX_SIZE_Sweep, permissionCache, key,
                                 value, now)
  /\ last' = [op |-> "setCachedPermission", key |-> key, value |-> value]
  /\ UNCHANGED <<now, globalPermissions, heldPermissions, checkedRule,
                 applicationVars>>

InitAge ==
  /\ permissionCache = <<>>
  /\ now = 0
  /\ globalPermissions = JsNull
  /\ Standalone
  /\ heldPermissions = JsArray("held", <<JsString(P_a)>>)
  /\ checkedRule = JsUndefined
  /\ last = [op |-> "init"]

NextAge ==
  \/ \E key \in AgeKeys : AgeSetCachedPermission(key, TRUE)
  \/ \E key \in AgeKeys : GetCachedPermission(key)
  \/ ClearPermissionCache
  \/ InvalidateCache
  \/ Tick(1)

SpecAge == InitAge /\ [][NextAge]_vars

----------------------------------------------------------------------------
(* SpecShared: stableStringify on values in which one object or array      *)
(* occurs more than once: below itself (circular input, written here with  *)
(* the inner occurrence as a node of the same ref) or at two positions     *)
(* side by side, as in the cache key of a rule that is or holds the held   *)
(* list.                                                                   *)

\* const obj = { a: 1 }; obj.self = obj
CircularObject ==
  JsObject("obj", <<Prop(<<"a">>, JsNumber(1)),
                    Prop(<<"s", "e", "l", "f">>, JsObject("obj", <<>>))>>)
\* const list = ["a"]; list.push(list)
CircularArray ==
  JsArray("list", <<JsString(P_a), JsArray("list", <<>>)>>)

SharedRules(held) ==
  {held, CircularObject, CircularArray, NestedValue, JsString(P_a),
   Structured(held, JsString(S_and)), Structured(held, JsString(S_or)),
   JsArray("pair", <<held, held>>),
   JsObject("rule", <<Prop(<<"b">>, JsArray("list", <<JsString(P_b)>>)),
                      Prop(<<"a">>, JsArray("list", <<JsString(P_b)>>))>>)}

\* The object hasPermission serialises for its cache key
KeyObject(permissionValue, current) ==
  JsObject("key", <<Prop(S_permissionValue, permissionValue),
                    Prop(S_current, current)>>)

InitShared ==
  /\ permissionCache = <<>>
  /\ now = 0
  /\ globalPermissions = JsNull
  /\ Standalone
  /\ heldPermissions \in StringifyHeld
  /\ checkedRule \in SharedRules(heldPermissions)
  /\ last = [op |-> "init"]

NextShared ==
  \/ StableStringify(checkedRule)
  \/ StableStringify(KeyObject(checkedRule, heldPermissions))
  \/ HasPermission(checkedRule, heldPermissions)
  \/ ClearPermissionCache

SpecShared == InitShared /\ [][NextShared]_vars

----------------------------------------------------------------------------
(* What the claims speak of *)

IsCall == last.op \in {"hasPermission", "checkPermissionSync"}

\* An object carrying both fields
IsStructured(v) ==
  v.kind = "object" /\ HasProp(v, S_permissions) /\ HasProp(v, S_mode)

PermissionsOf(v) == GetProp(v, S_permissions)
ModeOf(v) == GetProp(v, S_mode)

\* The strings of a list, as a set
StringsOf(list) == {list.items[i].str : i \in 1..Len(list.items)}

IsPrefix(p, h) == \E k \in 0..Len(h) : SubSeq(h, 1, k) = p
IsSuffix(p, h) == \E k \in 0..Len(h) : SubSeq(h, k + 1, Len(h)) = p

\* The held list a call was evaluated against
CurrentOf(call) ==
  IF call.userPermissions.kind \in {"undefined", "null"}
    THEN getCurrentPermissions(globalPermissions)
    ELSE call.userPermissions

----------------------------------------------------------------------------
(* C1: after any sequence of earlier calls, cache clears and elapsed time, *)
(* hasPermission(rule, held) returns the boolean that                      *)
(* checkPermissionSync(rule, held) returns.                                *)
C1_AsyncEqualsSync ==
  last.op = "hasPermission" =>
    last.result = checkPermissionSync(last.permissionValue,
                                      last.userPermissions, globalPermissions)

(* C2: after any sequence of cache operations and hasPermission calls, with *)
(* any string keys (the empty string included), the cache holds at most     *)
(* CACHE_MAX_SIZE entries.                                                  *)
C2_CacheBounded == Len(permissionCache) <= CACHE_MAX_SIZE

(* C3: getCachedPermission(key) returns the stored boolean while the        *)
(* entry's age is at most CACHE_TTL and changes nothing; once the age       *)
(* exceeds CACHE_TTL it returns null and deletes that entry alone; a read   *)
(* never changes a timestamp, and only a set (setCachedPermission, or the   *)
(* store of a hasPermission miss) creates an entry, stamped with the time   *)
(* of that set.                                                             *)
C3_TTL ==
  [][ /\ last'.op = "getCachedPermission" =>
           LET key == last'.key
               present == \E e \in {permissionCache[i] : i \in 1..Len(permissionCache)} :
                            e.key = key
               entry == CHOOSE e \in {permissionCache[i] : i \in 1..Len(permissionCache)} :
                            e.key = key
           IN IF present /\ now - entry.timestamp <= CACHE_TTL
                THEN /\ last'.result = JsBoolean(entry.value)
                     /\ permissionCache' = permissionCache
                ELSE /\ last'.result = JsNull
                     /\ permissionCache' =
                          SelectSeq(permissionCache, LAMBDA e : e.key # key)
      /\ \A i \in 1..Len(permissionCache') :
           \/ \E j \in 1..Len(permissionCache) :
                permissionCache[j] = permissionCache'[i]
           \/ /\ last'.op \in {"setCachedPermission", "hasPermission"}
              /\ permissionCache'[i].timestamp = now
    ]_vars

\* An entry was read at the very end of its lifetime and returned.
C3_Witness ==
  /\ last.op = "getCachedPermission"
  /\ last.result.kind = "boolean"
  /\ \E i \in 1..Len(permissionCache) :
       /\ permissionCache[i].key = last.key
       /\ now - permissionCache[i].timestamp = CACHE_TTL

(* C4: when setCachedPermission inserts a new key into a full cache,        *)
(* exactly one entry is evicted, the one inserted earliest among those      *)
(* present, whatever was read in between.                                   *)
C4_EvictsOldest ==
  [][ ( /\ last'.op = "setCachedPermission"
        /\ Len(permissionCache) = CACHE_MAX_SIZE
        /\ \A i \in 1..Len(permissionCache) : permissionCache[i].key # last'.key )
      => permissionCache' =
           Append(Tail(permissionCache),
                  [key |-> last'.key, value |-> last'.value, timestamp |-> now])
    ]_vars

\* The rule "*", a list that contains "*", or a structured rule under one
\* of the six modes whose permissions list contains "*"
IsWildcardRule(v) ==
  \/ v = JsString(S_star)
  \/ v.kind = "array" /\ S_star \in StringsOf(v)
  \/ /\ IsStructured(v)
     /\ ModeOf(v) \in VALID_MODES
     /\ PermissionsOf(v).kind = "array"
     /\ S_star \in StringsOf(PermissionsOf(v))

(* C5: for every held list, both evaluators return true for the rule "*",   *)
(* for every list rule that contains "*", and for every structured rule     *)
(* whose permissions list contains "*" under each of the six modes.         *)
C5_WildcardTrue ==
  (IsCall /\ IsWildcardRule(last.permissionValue)) => last.result = TRUE

\* What the five string modes mean, over the sets of strings
ModeMeaning(mode, P, H) ==
  CASE mode = S_and -> \A p \in P : p \in H
    [] mode = S_or -> \E p \in P : p \in H
    [] mode = S_not -> \A p \in P : p \notin H
    [] mode = S_startWith -> \E p \in P : \E h \in H : IsPrefix(p, h)
    [] mode = S_endWith -> \E p \in P : \E h \in H : IsSuffix(p, h)

\* A structured rule under one of the five string modes whose permissions
\* list is non-empty and holds no "*"
IsPlainStructured(v) ==
  /\ IsStructured(v)
  /\ ModeOf(v) \in VALID_MODES \ {JsString(S_regex)}
  /\ PermissionsOf(v).kind = "array"
  /\ PermissionsOf(v).items # <<>>
  /\ S_star \notin StringsOf(PermissionsOf(v))

(* C6: for a structured rule with a non-empty, wildcard-free list P and a   *)
(* held list H, both evaluators return: and, every element of P is in H;    *)
(* or, some element is; not, none is; startWith, some p in P is a prefix of *)
(* some h in H; endWith, some p in P is a suffix of some h in H.            *)
C6_ModeSemantics ==
  (IsCall /\ IsPlainStructured(last.permissionValue)) =>
    last.result = ModeMeaning(ModeOf(last.permissionValue).str,
                              StringsOf(PermissionsOf(last.permissionValue)),
                              StringsOf(CurrentOf(last)))

\* A structured rule whose permissions list is the empty list
IsEmptyStructured(v) ==
  /\ IsStructured(v)
  /\ PermissionsOf(v).kind = "array"
  /\ PermissionsOf(v).items = <<>>

(* C7: under each of the six modes and for every held list, a structured    *)
(* rule whose permissions list is empty evaluates to false in hasPermission *)
(* and in checkPermissionSync.                                              *)
C7_EmptyListDenied ==
  ( /\ IsCall
    /\ IsEmptyStructured(last.permissionValue)
    /\ ModeOf(last.permissionValue) \in VALID_MODES )
  => last.result = FALSE

\* hasPermission was asked for an empty list under `not`, and denied it.
C7_Witness ==
  /\ last.op = "hasPermission"
  /\ IsEmptyStructured(last.permissionValue)
  /\ ModeOf(last.permissionValue) = JsString(S_not)
  /\ last.result = FALSE

(* C8: a structured rule whose mode is none of the six evaluates to false   *)
(* for every held list and every permissions list, also one that contains   *)
(* "*".                                                                     *)
C8_InvalidModeDenied ==
  ( /\ IsCall
    /\ IsStructured(last.permissionValue)
    /\ ModeOf(last.permissionValue) \notin VALID_MODES )
  => last.result = FALSE

\* hasPermission was asked for a list holding "*" under an unknown mode,
\* and denied it.
C8_Witness ==
  /\ last.op = "hasPermission"
  /\ IsStructured(last.permissionValue)
  /\ ModeOf(last.permissionValue) = JsString(S_bogus)
  /\ PermissionsOf(last.permissionValue).kind = "array"
  /\ S_star \in StringsOf(PermissionsOf(last.permissionValue))
  /\ last.result = FALSE

\* Not a string, not an array, not an object carrying both fields; or a
\* structured rule whose permissions field is no array
IsMalformedRule(v) ==
  \/ v.kind \notin {"string", "array", "object"}
  \/ v.kind = "object" /\ ~IsStructured(v)
  \/ IsStructured(v) /\ PermissionsOf(v).kind # "array"

(* C9: for every value that is no rule, and for a structured rule whose     *)
(* permissions field is no array, both evaluators return false.             *)
C9_MalformedDenied ==
  (IsCall /\ IsMalformedRule(last.permissionValue)) => last.result = FALSE

\* The same rule under mode `or`
WithModeOr(v) == Structured(PermissionsOf(v), JsString(S_or))

\* The verdict the evaluator of the last call computes for `rule`
ComputedBy(call, rule) ==
  IF call.op = "checkPermissionSync"
    THEN checkPermissionSync(rule, call.userPermissions, globalPermissions)
    ELSE evaluate(rule, CurrentOf(call))

IsNotRule(v) ==
  /\ IsStructured(v)
  /\ ModeOf(v) = JsString(S_not)
  /\ PermissionsOf(v).kind = "array"
  /\ PermissionsOf(v).items # <<>>

ReturnedBy(call, rule) ==
  IF call.op = "checkPermissionSync"
    THEN checkPermissionSync(rule, call.userPermissions, globalPermissions)
    ELSE hasPermission(rule, call.userPermissions, globalPermissions,
                       permissionCache, now).result

\* The list L as the rule { permissions: L, mode: "or" }
AsModeOr(L) == Structured(L, JsString(S_or))

(* C11: for every list L, the empty one included, and every held list, the  *)
(* list rule L and the structured rule {permissions: L, mode: or} get the   *)
(* same verdict from the same evaluator.                                    *)
C11_ArrayEqualsOr ==
  (IsCall /\ IsArray(last.permissionValue)) =>
    last.result = ReturnedBy(last, AsModeOr(last.permissionValue))

\* A structured rule in regex mode over a non-empty list of strings
IsRegexRule(v) ==
  /\ IsStructured(v)
  /\ ModeOf(v) = JsString(S_regex)
  /\ PermissionsOf(v).kind = "array"
  /\ PermissionsOf(v).items # <<>>

\* Some pattern of P that compiles matches some held string of H
SomeCompiledPatternMatches(P, H) ==
  \E p \in P : RegExpCompiles(p) /\ \E h \in H : RegExpTest(p, h)

HasUncompilable(P) == \E p \in P : ~RegExpCompiles(p)

C13_NestedQuantifierRejected ==
  ( /\ IsCall
    /\ IsRegexRule(last.permissionValue)
    /\ StringsOf(PermissionsOf(last.permissionValue)) = {R_nested} )
  => last.result = FALSE

\* What a value holds, whichever object holds it: the value without the
\* identities, an object's properties in the order of their keys.
RECURSIVE Content(_)
Content(v) ==
  CASE v.kind = "array" ->
         [kind |-> "array",
          items |-> [i \in 1..Len(v.items) |-> Content(v.items[i])]]
    [] v.kind = "object" ->
         LET ps == SortProps(v.props, <<>>)
         IN [kind |-> "object",
             props |-> [i \in 1..Len(ps) |->
                          Prop(ps[i].key, Content(ps[i].val))]]
    [] OTHER -> v

(* C14: the cache key of a hasPermission call is the key of no evaluation   *)
(* whose rule or whose held list differs from the call's.                   *)
C14_DistinctKeys ==
  last.op = "hasPermission" =>
    \A held \in SessionHeld : \A rule \in SessionRules(held) :
      cacheKeyOf(rule, held) = cacheKeyOf(last.permissionValue, CurrentOf(last))
        => /\ Content(rule) = Content(last.permissionValue)
           /\ Content(held) = Content(CurrentOf(last))

(* C15: stableStringify returns the same string for two values that differ  *)
(* only in the insertion order of object keys, at every depth; the cache    *)
(* entry of a rule is the entry of the same rule with its keys inserted in  *)
(* another order, for the same held list.                                   *)
C15_KeyOrderIrrelevant ==
  /\ last.op = "stableStringify" =>
       \A w \in Reorderings(last.value) : stableStringify(w) = last.result
  /\ last.op = "hasPermission" =>
       \A w \in Reorderings(last.permissionValue) :
         MapHas(permissionCache, stringifyKey(w, CurrentOf(last)))

\* stableStringify was applied to the nested value with the keys of its
\* three objects inserted in descending order.
C15_Witness ==
  /\ last.op = "stableStringify"
  /\ last.value = NestedValue
  /\ Cardinality(Reorderings(last.value)) = 8
  /\ Len(last.result) > 0

\* The entries of a Map, as a set
Entries(m) == {m[i] : i \in 1..Len(m)}

(* C17: setCachedPermission on a key that is present replaces that entry's  *)
(* value and timestamp and evicts nothing: every other entry stays present  *)
(* and unchanged, also when the cache is full.                              *)
C17_OverwriteEvictsNothing ==
  [][ ( /\ last'.op = "setCachedPermission"
        /\ MapHas(permissionCache, last'.key) )
      => Entries(permissionCache') =
           (Entries(permissionCache) \ {MapGet(permissionCache, last'.key)})
             \cup {[key |-> last'.key, value |-> last'.value,
                    timestamp |-> now]}
    ]_vars

(* C18: invalidateCache removes exactly the entries whose age exceeds       *)
(* CACHE_TTL and leaves every other entry present, with its value and       *)
(* timestamp, in the order it had.                                          *)
C18_SweepsExactlyExpired ==
  [][ last'.op = "invalidateCache" =>
        /\ \A e \in Entries(permissionCache) :
             e \in Entries(permissionCache') <=> now - e.timestamp <= CACHE_TTL
        /\ Entries(permissionCache') \subseteq Entries(permissionCache)
        /\ \A i, j \in 1..Len(permissionCache') :
             i < j =>
               \E k, l \in 1..Len(permissionCache) :
                 /\ k < l
                 /\ permissionCache[k] = permissionCache'[i]
                 /\ permissionCache[l] = permissionCache'[j]
        /\ now' = now
    ]_vars

\* invalidateCache deleted an entry and kept one that was at the very end
\* of its lifetime.
C18_Witness ==
  /\ last.op = "invalidateCache"
  /\ last.removed > 0
  /\ \E e \in Entries(permissionCache) : now - e.timestamp = CACHE_TTL

(* C19: calls of invalidateCache, added anywhere in a sequence of cache     *)
(* operations, change neither what a later getCachedPermission returns for  *)
(* a key whose entry has not expired nor the boolean a later hasPermission  *)
(* returns.                                                                 *)
C19_SweepChangesNoResult ==
  ( /\ last.op \in {"getCachedPermission", "hasPermission"}
    /\ "resultWithout" \in DOMAIN last )
  => last.result = last.resultWithout

(* C16: clearPermissionCache leaves the cache without entries, so that      *)
(* getCachedPermission returns null for every key right after it; and when  *)
(* setPermissions with an array argument, refresh or a plugin installation  *)
(* returns, the cache holds none of the entries it held when that operation *)
(* was called.                                                              *)
AppKeys ==
  {cacheKeyOf(rule, JsArray("any", items)) :
     rule \in AppRules,
     items \in {<<>>, <<JsString(P_a)>>, <<JsString(P_b)>>}}

ClearsCache(call) ==
  \/ call.op \in {"clearPermissionCache", "refresh", "install"}
  \/ call.op = "setPermissions" /\ IsArray(call.newPerms)

C16_ClearedOnChange ==
  ClearsCache(last) =>
    /\ permissionCache = <<>>
    /\ \A key \in AppKeys \cup CacheKeys :
         getCachedPermission(permissionCache, key, now).result = JsNull

C16_Witness ==
  /\ last.op = "install"
  /\ last.entriesBefore > 0
  /\ pending # <<>>

(* C20: one hasPermission call does its lookup, its evaluation and its      *)
(* store in one piece: while a call is between its lookup and its store, no *)
(* other hasPermission call has run or is waiting, and neither a cache      *)
(* clear nor a change of the permissions (setPermissions, refresh, install) *)
(* has run.                                                                 *)
C20_NothingBetweenLookupAndStore ==
  pending # <<>> =>
    /\ Len(pending) = 1
    /\ last.op \notin {"hasPermission", "clearPermissionCache",
                       "setPermissions", "refresh", "install"}

(* C21: a call of hasPermission or checkPermissionSync without a held list *)
(* returns what the evaluation of its rule against the global permissions  *)
(* of that moment gives (the configured list, the value of the configured  *)
(* Ref, the empty list when nothing is configured); a call with a held     *)
(* list returns what the evaluation against that list gives, whatever is   *)
(* configured.                                                             *)
C21_EvaluatedAgainstChosenList ==
  /\ last.op = "hasPermission" =>
       last.result = evaluate(last.permissionValue, CurrentOf(last))
  /\ last.op = "checkPermissionSync" =>
       last.result = checkPermissionSync(last.permissionValue,
                                         CurrentOf(last), JsNull)

(* C22: after configurePermission the cache holds none of the entries      *)
(* stored before the call.                                                 *)
C22_ConfigureClearsCache ==
  last.op = "configurePermission" => permissionCache = <<>>


(* C23: setPermissions(P) with an array P leaves the instance's permissions *)
(* equal to P and, where there is a localStorage, the stored permissions    *)
(* equal to P; every can(rule) and canSync(rule) returns what the           *)
(* evaluation of the rule against the instance's permissions gives, and     *)
(* these change only by setPermissions and refresh (or when the instance is *)
(* created); setPermissions with an argument that is no array changes       *)
(* neither the permissions, the storage nor the cache.                      *)
C23_SetThenHeld ==
  (last'.op = "setPermissions" /\ IsArray(last'.newPerms)) =>
    /\ toReactive(heldPermissions').items = last'.newPerms.items
    /\ isBrowser(storage') =>
         /\ IsArray(getPermissionsFromStorage(storage'))
         /\ getPermissionsFromStorage(storage').items = last'.newPerms.items

C23_SetWithoutArray ==
  (last'.op = "setPermissions" /\ ~IsArray(last'.newPerms)) =>
    UNCHANGED <<heldPermissions, storage, permissionCache>>

C23_ChecksAgainstHeld ==
  last'.op \in {"can", "canSync"} =>
    /\ last'.permissions = toReactive(heldPermissions')
    /\ last'.result = Returned(evaluate(last'.rule, last'.permissions))

C23_HeldUntilNext ==
  heldPermissions' # heldPermissions =>
    last'.op \in {"setPermissions", "refresh", "usePermission"}

C23_SetPermissions ==
  [][/\ C23_SetThenHeld
     /\ C23_SetWithoutArray
     /\ C23_ChecksAgainstHeld
     /\ C23_HeldUntilNext]_vars


(* C24: once setPermissions(P) with an array P has returned, the            *)
(* permissions that hasPermission and checkPermissionSync read when no held *)
(* list is passed (as the v-permission directive calls them), and the       *)
(* reactive list provided to components, are P.                             *)
C24_SetUpdatesEverywhere ==
  (last.op = "setPermissions" /\ IsArray(last.newPerms)) =>
    /\ getCurrentPermissions(globalPermissions).items = last.newPerms.items
    /\ globalReactivePermissions.items = last.newPerms.items


(* C25: refresh() sets the instance's permissions to the current contents  *)
(* of the source the instance was created from (the global permissions,    *)
(* the stored permissions, nothing), and a refresh() that follows          *)
(* setPermissions gives what it would have given without that              *)
(* setPermissions: the list set locally is discarded.                      *)
NoPermissions == Content(JsArray("none", <<>>))

\* The contents of the source, with `stored` read from the storage
SourceContent(stored) ==
  LET g == getCurrentPermissions(globalPermissions)
  IN IF sourceType = "global" /\ HasLength(g) THEN Content(g)
     ELSE IF sourceType = "storage" /\ HasLength(stored) THEN Content(stored)
     ELSE NoPermissions

C25_Reloads ==
  last'.op = "refresh" =>
    Content(heldPermissions') =
      SourceContent(getPermissionsFromStorage(storage))

RefreshAfterSet ==
  /\ last.op = "setPermissions"
  /\ IsArray(last.newPerms)
  /\ last'.op = "refresh"

C26_InitialPermissions ==
  last.op = "usePermission" =>
    LET g == getCurrentPermissions(globalPermissions)
        stored == getPermissionsFromStorage(storage)
    IN Content(heldPermissions) =
         IF IsArray(g) /\ g.items # <<>> THEN Content(g)
         ELSE IF IsArray(stored) /\ stored.items # <<>> THEN Content(stored)
         ELSE NoPermissions


(* C27: in every state of an instance and for every rule, canSync(rule)    *)
(* returns the boolean that can(rule) resolves to in that state, and does  *)
(* not throw.                                                              *)
C27_CanSyncEqualsCan ==
  last.op = "canSync" =>
    last.result =
      Returned(hasPermission(last.rule, last.permissions, globalPermissions,
                             permissionCache, now).result)


\* The rule hasAll and hasAny build from a list
RuleOfMode(P, mode) ==
  JsObject("rule", <<Prop(S_permissions, P), Prop(S_mode, JsString(mode))>>)

\* hasAll and hasAny return `empty` for what is no list or has no element
WithoutCheck(P) == ~IsArray(P) \/ Len(P.items) = 0

(* C28: hasAll(P) returns true when P is empty or not an array and         *)
(* otherwise the verdict of {permissions: P, mode: "and"}; hasAny(P)       *)
(* returns false when P is empty or not an array and otherwise the verdict *)
(* of {permissions: P, mode: "or"}; both against the instance's current    *)
(* permissions.                                                            *)
C28_HasAllHasAny ==
  /\ last.op \in {"hasAll", "hasAny"} =>
       last.permissions = toReactive(heldPermissions)
  /\ last.op = "hasAll" =>
       last.result =
         Returned(IF WithoutCheck(last.perms) THEN TRUE
                  ELSE evaluate(RuleOfMode(last.perms, S_and), last.permissions))
  /\ last.op = "hasAny" =>
       last.result =
         Returned(IF WithoutCheck(last.perms) THEN FALSE
                  ELSE evaluate(RuleOfMode(last.perms, S_or), last.permissions))


\* A run of one of the two navigation guards
IsGuardRun == last.op \in {"globalGuard", "createPermissionGuard"}

\* The auth state of the run, when getAuthState gave one: the user is
\* unauthenticated when there is no getAuthState or it returns nothing
NoAuthState == AuthState(FALSE, JsUndefined)
HasAuthState ==
  IsGuardRun /\ (last.getAuthState.kind = "undefined" \/ ~last.getAuthState.throws)
AuthStateOfRun ==
  IF last.getAuthState.kind = "undefined"
       \/ last.getAuthState.returns.kind \in {"undefined", "null"}
    THEN NoAuthState
    ELSE last.getAuthState.returns
IsAuthenticatedRun == AuthStateOfRun.isAuthenticated = JsBoolean(TRUE)
UserPermissionsOfRun ==
  IF AuthStateOfRun.permissions.kind \in {"undefined", "null"}
    THEN getCurrentPermissions(globalPermissions)
    ELSE AuthStateOfRun.permissions

\* The route's meta, by member
MetaOfRun(member) ==
  IF last.to.meta.kind = "undefined" THEN JsUndefined
  ELSE CASE member = "requiresAuth" -> last.to.meta.requiresAuth
         [] member = "checkPermission" -> last.to.meta.checkPermission
         [] member = "permissions" -> last.to.meta.permissions
RouteRequiresAuth == MetaOfRun("requiresAuth") = JsBoolean(TRUE)
RouteHasRule ==
  /\ MetaOfRun("checkPermission") = JsBoolean(TRUE)
  /\ MetaOfRun("permissions").kind # "undefined"
RouteIsAuthRoute ==
  /\ guardOptions.authRoutes.kind = "array"
  /\ \E i \in 1..Len(guardOptions.authRoutes.items) :
       guardOptions.authRoutes.items[i].path = last.to.path

LoginPathOfRun ==
  IF guardOptions.loginPath.kind = "undefined"
    THEN JsString(Path_login) ELSE guardOptions.loginPath
HomePathOfRun ==
  IF guardOptions.homePath.kind = "undefined"
    THEN JsString(Path_home) ELSE guardOptions.homePath

\* What the run did with next
Proceeds == \E i \in 1..Len(last.calls) : last.calls[i] = <<>>
RedirectsTo(path) == last.calls = <<<<path>>>>

\* The callback of that name was called and threw
CallbackThrew(name) ==
  /\ \E i \in 1..Len(last.callbacks) : last.callbacks[i] = name
  /\ (IF name = "onDenied" THEN guardOptions.onDenied
                           ELSE guardOptions.onAllowed).throws

C29_ProceedsOnlyWhenAllowed ==
  (IsGuardRun /\ Proceeds) =>
    /\ HasAuthState
    /\ IsAuthenticatedRun \/ ~RouteRequiresAuth
    /\ ~RouteHasRule
         \/ evaluate(MetaOfRun("permissions"), UserPermissionsOfRun)

C29_UnauthenticatedToLogin ==
  (HasAuthState /\ ~IsAuthenticatedRun /\ RouteRequiresAuth) =>
    RedirectsTo(LoginPathOfRun)

(* C29 as stated: the guards call next() with no argument only when the    *)
(* user is authenticated or the route does not require auth, and the route *)
(* has no checkPermission rule or the user's permissions satisfy it; an    *)
(* unauthenticated navigation to a requiresAuth route is redirected to     *)
(* loginPath, and an authenticated navigation to an auth route is          *)
(* redirected to homePath.                                                 *)
C29_GuardDecision ==
  /\ C29_ProceedsOnlyWhenAllowed
  /\ C29_UnauthenticatedToLogin
  /\ (HasAuthState /\ IsAuthenticatedRun /\ RouteIsAuthRoute) =>
       RedirectsTo(HomePathOfRun)

(* C29, amended: as stated, except that an authenticated navigation to an  *)
(* auth route is redirected to homePath when onAllowed does not throw, and *)
(* to loginPath when it throws.                                            *)
C29_GuardDecisionUnlessCallbackThrows ==
  /\ C29_ProceedsOnlyWhenAllowed
  /\ C29_UnauthenticatedToLogin
  /\ (HasAuthState /\ IsAuthenticatedRun /\ RouteIsAuthRoute) =>
       IF CallbackThrew("onAllowed")
         THEN RedirectsTo(LoginPathOfRun)
         ELSE RedirectsTo(HomePathOfRun)

\* An authenticated navigation to the login page, whose onAllowed threw,
\* went to loginPath
C29_Witness ==
  /\ HasAuthState /\ IsAuthenticatedRun /\ RouteIsAuthRoute
  /\ CallbackThrew("onAllowed")
  /\ RedirectsTo(LoginPathOfRun)

\* Something threw in the run: getAuthState, a callback, or the evaluation
\* (the guard logged the error it caught)
RunThrew ==
  \/ last.getAuthState.kind # "undefined" /\ last.getAuthState.throws
  \/ CallbackThrew("onDenied")
  \/ CallbackThrew("onAllowed")
  \/ last.logged # ""

(* C30: one guard run calls next exactly once, whatever the authentication *)
(* state, the route meta and the options; when getAuthState, a callback or *)
(* the permission evaluation throws, the error is not propagated and that  *)
(* one call is next(loginPath).                                            *)
C30_NextExactlyOnce ==
  IsGuardRun =>
    /\ Len(last.calls) = 1
    /\ ~last.propagated
    /\ RunThrew => RedirectsTo(LoginPathOfRun)

\* The search for a fallback route threw after onDenied had returned, and
\* the run made its one call, to the configured login path
C30_Witness ==
  /\ IsGuardRun
  /\ last.logged # ""
  /\ ~CallbackThrew("onDenied") /\ ~CallbackThrew("onAllowed")
  /\ last.getAuthState.kind # "undefined" /\ ~last.getAuthState.throws
  /\ RedirectsTo(LoginPathOfRun)


\* The entries a setCachedPermission step evicted: those of another key
\* than the one it set that are no longer in the Map
EvictedBy(before, after, key) ==
  {e \in Entries(before) :
     e.key # key /\ \A r \in Entries(after) : r.key # e.key}

(* C38: whenever an entry is evicted for capacity, no entry that remains   *)
(* in the cache has an older timestamp than the evicted one, for any       *)
(* sequence of inserts, overwrites, expirations and clears.                *)
C38_EvictionAgreesWithAge ==
  [][last'.op = "setCachedPermission" =>
       \A e \in EvictedBy(permissionCache, permissionCache', last'.key) :
         \A r \in Entries(permissionCache') : r.timestamp >= e.timestamp]_vars


(* C39: after every configurePermission call, with a plain array or with   *)
(* a ref, and after every later change of a configured ref, the reactive   *)
(* ref returned by getReactivePermissions holds the same list as           *)
(* getCurrentPermissions().                                                *)
C39_ReactiveFollowsConfig ==
  last.op \in {"configurePermission", "ref.value"} =>
    Content(globalReactivePermissions)
      = Content(getCurrentPermissions(globalPermissions))


\* The text of a value when only an occurrence below itself is left out:
\* `above` holds the refs of the objects and arrays the value lies in.  An
\* array element left out is written as null, a property left out is not
\* written.
RECURSIVE BranchText(_, _)
RECURSIVE BranchItems(_, _, _)
RECURSIVE BranchProps(_, _, _, _)
BranchText(v, above) ==
  CASE v.kind = "undefined" -> [defined |-> FALSE, str |-> <<>>]
    [] v.kind = "null" -> [defined |-> TRUE, str |-> <<"n", "u", "l", "l">>]
    [] v.kind = "boolean" ->
         [defined |-> TRUE,
          str |-> IF v.bool THEN <<"t", "r", "u", "e">>
                  ELSE <<"f", "a", "l", "s", "e">>]
    [] v.kind = "number" -> [defined |-> TRUE, str |-> Decimal(v.num)]
    [] v.kind = "string" -> [defined |-> TRUE, str |-> Quote(v.str)]
    [] v.kind = "array" ->
         IF v.ref \in above THEN [defined |-> FALSE, str |-> <<>>]
         ELSE [defined |-> TRUE,
               str |-> BranchItems(v.items, <<"[">>, above \cup {v.ref})]
    [] v.kind = "object" ->
         IF v.ref \in above THEN [defined |-> FALSE, str |-> <<>>]
         ELSE [defined |-> TRUE,
               str |-> BranchProps(SortProps(v.props, <<>>), <<"{">>, TRUE,
                                   above \cup {v.ref})]

BranchItems(items, acc, above) ==
  IF items = <<>> THEN acc \o <<"]">>
  ELSE LET r == BranchText(Head(items), above)
       IN BranchItems(Tail(items),
            acc \o (IF acc = <<"[">> THEN <<>> ELSE <<",">>)
                \o (IF r.defined THEN r.str ELSE <<"n", "u", "l", "l">>),
            above)

BranchProps(ps, acc, first, above) ==
  IF ps = <<>> THEN acc \o <<"}">>
  ELSE LET r == BranchText(Head(ps).val, above)
       IN IF r.defined
            THEN BranchProps(Tail(ps),
                   acc \o (IF first THEN <<>> ELSE <<",">>)
                       \o Quote(Head(ps).key) \o <<":">> \o r.str,
                   FALSE, above)
            ELSE BranchProps(Tail(ps), acc, first, above)

(* C40: stableStringify returns, on circular input too, the text in which  *)
(* only an occurrence of a value below itself is left out; an object or    *)
(* array at two positions that are not nested in each other is written at  *)
(* both.                                                                   *)
C40_OmitsOnlyAncestors ==
  last.op = "stableStringify" =>
    last.result = BranchText(last.value, {}).str


----------------------------------------------------------------------------
\* The storage the calls of this run go to works: it is there and none of
\* its calls throws (none of the three functions changes that)
StorageWorks == isBrowser(storage) /\ ~StorageCallThrows(storage)

IsGet == last.op = "getPermissionsFromStorage"

\* A read hands out what the read before it handed out, a read after a
\* clear hands out null, the first read of a storage that holds nothing,
\* or text that decodes to nothing, hands out null
ReadsOfNothing ==
  IsGet =>
    /\ last.previous.op = "getPermissionsFromStorage"
         => last.result = last.previous.result
    /\ last.previous.op = "clearPermissionsFromStorage"
         => last.result = JsNull
    /\ (last.previous.op = "init" /\ storage \in {JsNull, JsString(<<"%">>)})
         => last.result = JsNull

ReadAfterSave == IsGet /\ last.previous.op = "savePermissionsToStorage"

----------------------------------------------------------------------------
\* The names of a list, the empty list for null
NamesOrNone(v) == IF v.kind \in {"undefined", "null"} THEN <<>> ELSE Content(v).items

\* The list the permissions option gives: the list itself, the list a Ref
\* holds
OptionList(o) ==
  IF o.permissions.kind = "ref" THEN o.permissions.value ELSE o.permissions

\* The names install is to take, by the order of the sources: the fetch
\* (the storage, else nothing, when it rejects), the option, the storage,
\* nothing
InstallSource(call) ==
  IF call.options.fetchPermissions
    THEN IF call.fetch = FetchRejected THEN NamesOrNone(call.storedBefore)
         ELSE NamesOrNone(call.fetch)
  ELSE IF call.options.permissions # JsUndefined
    THEN NamesOrNone(OptionList(call.options))
  ELSE NamesOrNone(call.storedBefore)

\* C35: install takes the permissions from fetchPermissions when it is
\* given (from storage, else the empty list, when it rejects), otherwise
\* from the permissions option, otherwise from storage, otherwise the empty
\* list; it clears the cache, makes that list the global permissions, and
\* writes it to storage unless persist is false, in which case storage is
\* left as it was.
C35_InstallSourceOrder ==
  last.op = "install" =>
    /\ permissionCache = <<>>
    /\ IsArray(globalPermissions)
    /\ Content(globalPermissions).items = InstallSource(last)
    /\ Content(globalReactivePermissions).items = InstallSource(last)
    /\ IF last.options.persist = JsBoolean(FALSE)
         THEN storage = last.storageBefore
         ELSE StorageWorks =>
                NamesOrNone(getPermissionsFromStorage(storage))
                  = InstallSource(last)

\* A rejected fetch fell back to the stored list, over a permissions
\* option, with entries in the cache, and the list was written
C35_Witness ==
  /\ last.op = "install"
  /\ last.fetch = FetchRejected
  /\ last.options.permissions # JsUndefined
  /\ last.options.persist # JsBoolean(FALSE)
  /\ last.entriesBefore > 0
  /\ InstallSource(last) = <<JsString(P_ab)>>
  /\ StorageWorks

----------------------------------------------------------------------------
\* The routes of a tree in depth-first pre-order, each with its full path
\* and the number of levels it is nested
RECURSIVE PreOrder(_, _, _)
PreOrderOf(route, basePath, depth) ==
  <<[path |-> basePath \o route.path.str, rule |-> route.meta.permissions,
     depth |-> depth]>>
    \o (IF route.children.kind = "array"
          THEN PreOrder(route.children.items, basePath \o route.path.str,
                        depth + 1)
          ELSE <<>>)
PreOrder(routes, basePath, depth) ==
  IF routes = <<>> THEN <<>>
  ELSE PreOrderOf(Head(routes), basePath, depth)
         \o PreOrder(Tail(routes), basePath, depth)

ProtectedRoutesOfRun ==
  IF guardOptions.protectedRoutes.kind = "array"
    THEN PreOrder(guardOptions.protectedRoutes.items, <<>>, 0)
    ELSE <<>>

\* The routes within the depth the search goes to that the user of the run
\* may enter: the rule of a route without meta.permissions is "*"
AccessibleOfRun ==
  {i \in 1..Len(ProtectedRoutesOfRun) :
     /\ ProtectedRoutesOfRun[i].depth <= MAX_ROUTE_DEPTH
     /\ evaluate(Nullish(ProtectedRoutesOfRun[i].rule, JsString(S_star)),
                 UserPermissionsOfRun)}

FallbackOfRun ==
  IF AccessibleOfRun = {} THEN LoginPathOfRun
  ELSE JsString(ProtectedRoutesOfRun[
         CHOOSE i \in AccessibleOfRun : \A j \in AccessibleOfRun : i <= j].path)

\* The run came to the permission check of the navigation, and it failed
PermissionCheckFailed ==
  /\ HasAuthState
  /\ IsAuthenticatedRun \/ ~RouteRequiresAuth
  /\ ~(IsAuthenticatedRun /\ RouteIsAuthRoute)
  /\ RouteHasRule
  /\ ~evaluate(MetaOfRun("permissions"), UserPermissionsOfRun)

\* No verdict in the cache is about a route below the depth the search
\* goes to: the rule "e" is the rule of such routes alone
KeyTextOfDeepRule ==
  <<"\"", "p", "e", "r", "m", "i", "s", "s", "i", "o", "n", "V", "a",
  "l", "u", "e", "\"", ":", "\"", "e", "\"">>
NothingDeeperExamined ==
  \A e \in Entries(permissionCache) :
    \A k \in 1..Len(e.key) : ~TextAt(e.key, k, KeyTextOfDeepRule)

\* C36 as stated: when the permission check of a navigation fails, the
\* guard redirects to the first route, in depth-first pre-order of
\* protectedRoutes with child paths prefixed by the parent's, whose rule
\* the user's permissions satisfy (no rule counts as satisfied), and to
\* loginPath when there is none; no route nested deeper than the maximum
\* depth is examined.
C36_RedirectsToFirstAccessible ==
  /\ (IsGuardRun /\ PermissionCheckFailed) => RedirectsTo(FallbackOfRun)
  /\ NothingDeeperExamined

\* C36 amended: that holds when onDenied does not throw; when it throws,
\* the guard redirects to loginPath and does not search.
C36_RedirectsToFirstAccessibleUnlessOnDeniedThrows ==
  /\ (IsGuardRun /\ PermissionCheckFailed) =>
       IF CallbackThrew("onDenied")
         THEN RedirectsTo(LoginPathOfRun)
         ELSE RedirectsTo(FallbackOfRun)
  /\ NothingDeeperExamined

\* The holder of "e" was sent to the login path although /p/c/d/e is kept
\* for "e"
C36_Witness ==
  /\ IsGuardRun /\ PermissionCheckFailed
  /\ ~CallbackThrew("onDenied")
  /\ UserPermissionsOfRun.items = <<JsString(P_e)>>
  /\ \E i \in 1..Len(ProtectedRoutesOfRun) :
       ProtectedRoutesOfRun[i].rule = JsString(P_e)
  /\ RedirectsTo(LoginPathOfRun)

----------------------------------------------------------------------------
\* The element is mounted, in remove mode or in show mode, without once
IsMounted == el # JsUndefined /\ ~el.unmounted
RemoveMode == IsMounted /\ ~el.show /\ ~el.once
ShowMode == IsMounted /\ el.show /\ ~el.once

\* The verdict of the binding value under the global permissions
VerdictNow ==
  IF evaluate(el.value, getCurrentPermissions(globalPermissions))
    THEN Allowed ELSE Denied

\* C31: in remove mode the element is in the DOM exactly when the last
\* verdict applied was allowed: after a denied verdict a comment stands in
\* its place, after a later allowed verdict the element is back in the
\* place of the comment and the comment is gone, and never are both the
\* element and the comment in the DOM; the verdict a hook applies is the
\* verdict of its binding value.
C31_InDOMExactlyWhenAllowed ==
  RemoveMode =>
    /\ InDOM(el) <=> el.applied = Allowed
    /\ ~(InDOM(el) /\ CommentInDOM(el))
    /\ el.applied = Denied => el.children = <<"sibling", "comment", "sibling">>
    /\ el.applied = Allowed => el.children = <<"sibling", "el", "sibling">>
    /\ last.op = "mounted" => el.applied = VerdictNow
    /\ last.op = "evaluateAndUpdate" =>
         el.applied = (IF last.allowed THEN Allowed ELSE Denied)

\* The element was put back in the place of its comment
C31_Witness ==
  /\ RemoveMode
  /\ last.op \in {"updated", "evaluateAndUpdate"}
  /\ last.before.children = <<"sibling", "comment", "sibling">>
  /\ el.children = <<"sibling", "el", "sibling">>

\* C32: in show mode the element stays in the DOM, its display is none
\* after a denied verdict, and after a later allowed verdict its display is
\* the one it had before it was hidden.
C32_ShowRestoresDisplay ==
  ShowMode =>
    /\ InDOM(el)
    /\ el.applied = Denied => el.style = "none"
    /\ el.applied = Allowed => computedDisplay(el) = el.displayAtMount

\* C33: with the once modifier no hook and no evaluation alters the
\* element's presence in the DOM or its display after mount.
C33_OnceIsFinal ==
  [][(IsMounted /\ el.once /\ el' # JsUndefined /\ ~el'.unmounted) =>
       /\ el'.children = el.children
       /\ el'.style = el.style
       /\ el'.evaluations = <<>>]_vars

\* An element with once went through an update for a binding value whose
\* verdict is not the one applied at mount
C33_Witness ==
  /\ IsMounted
  /\ el.once
  /\ last.op = "updated"
  /\ el.applied # VerdictNow

\* C37: once the updated hook has run for the latest binding value under
\* the permissions of now and every evaluation has settled, the element of
\* remove mode is in the DOM exactly when the verdict of the latest binding
\* value is allowed.
C37_LatestValueWins ==
  (RemoveMode /\ el.evaluations = <<>> /\ ~el.lazy
     /\ el.updatedFor = getCurrentPermissions(globalPermissions)) =>
    (InDOM(el) <=> VerdictNow = Allowed)

====
